---- MODULE Spec2Model ----
(***************************************************************************)
(* Lunara Afiliados: the Express route handlers over the relational store. *)
(* A request is a process whose steps are its store queries: the code      *)
(* between two awaits runs without interruption, every query is one step,  *)
(* and the queries of concurrent requests interleave freely.               *)
(***************************************************************************)
EXTENDS Integers, Sequences, FiniteSets, TLC

VARIABLES users, affiliates, therapists, services, bookings, commissions,
          issued, req, nreq

vars == <<users, affiliates, therapists, services, bookings, commissions,
          issued, req, nreq>>

tables == <<users, affiliates, therapists, services, bookings, commissions>>

(***************************************************************************)
(* Bounds                                                                  *)
(***************************************************************************)
\* requests served in one behaviour
MaxRequests == 3

\* request slots: the requests that can be in flight at the same time
Reqs == {1, 2}

(***************************************************************************)
(* Values                                                                  *)
(***************************************************************************)
\* SQL NULL / JS null and undefined for an id
NULL == 0

\* an absent optional string of a request body (undefined)
NoStr == ""

Dates == {"2025-08-01"}
Times == {"09:00", "09:30"}

\* the text of an error thrown by the store itself (pg's error.message)
StoreErrorText == "pg: store error"
GenericError == "Erro interno do servidor"

NoUser == [id |-> NULL, email |-> NoStr, role |-> NoStr, is_active |-> FALSE]

EmptyTx == [bookings |-> {}, commissions |-> {}, affiliates |-> {},
            therapists |-> {}, paid |-> {}, credit |-> {}]

NoArgs == [none |-> TRUE]
NoLoc == [none |-> TRUE]

IdleReq == [rid |-> 0, op |-> "idle", pc |-> "done", token |-> [kind |-> "none", userId |-> NULL],
            user |-> NoUser, args |-> NoArgs, loc |-> NoLoc, tx |-> EmptyTx,
            status |-> 0, message |-> NoStr, nexted |-> FALSE, threw |-> FALSE]

(***************************************************************************)
(* Helpers over tables (sets of rows)                                      *)
(***************************************************************************)
Ids(rows) == {x.id : x \in rows}

Max(S) == IF S = {} THEN 0 ELSE CHOOSE m \in S : \A y \in S : y <= m

\* gen_random_uuid(): an id no row of the table has, committed or pending
FreshId(rows, pending) == Max(Ids(rows) \cup Ids(pending)) + 1

\* the rows of a table that other requests hold in uncommitted transactions
PendingOthers(r, field) == UNION {req[q].tx[field] : q \in Reqs \ {r}}
PendingAll(field) == UNION {req[q].tx[field] : q \in Reqs}

Row(rows, id) == CHOOSE x \in rows : x.id = id

(***************************************************************************)
(* Responses                                                               *)
(***************************************************************************)
\* what stays known of a finished request: the id it addressed, no body
Addressed(op, args) ==
    IF op \in {"confirm", "cancel", "payCommission", "availability"} THEN args ELSE NoArgs

\* res.status(status).json({message}): the request is over, its locals are gone.
\* threw records that a store query of the request threw (for the claims only)
Answer(r, status, message, threw) ==
    req' = [req EXCEPT ![r] = [IdleReq EXCEPT !.rid = req[r].rid, !.op = req[r].op,
                                              !.args = Addressed(req[r].op, req[r].args),
                                              !.status = status, !.message = message,
                                              !.nexted = req[r].nexted, !.threw = threw]]

Respond(r, status, message) == Answer(r, status, message, FALSE)

\* a new request takes a free slot
BeginAt(r, op, pc, token, args) ==
    /\ req[r].pc = "done"
    /\ \A q \in Reqs : q < r => req[q].pc # "done"
    /\ nreq < MaxRequests
    /\ nreq' = nreq + 1
    /\ req' = [req EXCEPT ![r] = [IdleReq EXCEPT !.rid = nreq + 1, !.op = op,
                                  !.pc = pc, !.token = token, !.args = args]]

\* a route behind authenticateToken
Begin(r, op, token, args) == BeginAt(r, op, "auth", token, args)

(***************************************************************************)
(* middleware/auth.js                                                      *)
(***************************************************************************)
NoToken == [kind |-> "none", userId |-> NULL]
MalformedToken == [kind |-> "malformed", userId |-> NULL]
ExpiredToken(u) == [kind |-> "expired", userId |-> u]
ValidToken(u) == [kind |-> "valid", userId |-> u]

\* the row the middleware selects: id, email, role, is_active
UserRows(rows, id) == {u \in rows : u.id = id}

Reject(status, message) ==
    [next |-> FALSE, status |-> status, message |-> message, user |-> NoUser, threw |-> FALSE]

\* authenticateToken without its test of user.is_active
authenticateTokenIgnoringActive(token, rows, fails) ==
    IF token.kind = "none" THEN Reject(401, "Token de acesso requerido")
    ELSE IF token.kind = "malformed" THEN Reject(403, "Token inválido")
    ELSE IF token.kind = "expired" THEN Reject(403, "Token expirado")
    ELSE IF fails THEN [Reject(500, GenericError) EXCEPT !.threw = TRUE]
    ELSE IF UserRows(rows, token.userId) = {} THEN Reject(401, "Usuário não encontrado")
    ELSE [next |-> TRUE, status |-> 0, message |-> NoStr,
          user |-> CHOOSE u \in UserRows(rows, token.userId) : TRUE, threw |-> FALSE]

\* authenticateToken with the users lookup done in the same step;
\* fails: the lookup query throws
authenticateToken(token, rows, fails) ==
    IF token.kind = "none" THEN Reject(401, "Token de acesso requerido")
    ELSE IF token.kind = "malformed" THEN Reject(403, "Token inválido")
    ELSE IF token.kind = "expired" THEN Reject(403, "Token expirado")
    ELSE IF fails THEN [Reject(500, GenericError) EXCEPT !.threw = TRUE]
    ELSE IF UserRows(rows, token.userId) = {} THEN Reject(401, "Usuário não encontrado")
    ELSE LET user == CHOOSE u \in UserRows(rows, token.userId) : TRUE
         IN IF ~user.is_active THEN Reject(401, "Conta desativada")
            ELSE [next |-> TRUE, status |-> 0, message |-> NoStr, user |-> user, threw |-> FALSE]

requireRole(roles, user) == user.role \in roles

\* the roles each route lists (no requireRole: every role)
AllRoles == {"admin", "therapist", "affiliate"}
RouteRoles(op) ==
    CASE op \in {"createAffiliate", "createTherapist", "payCommission", "updateUser",
                 "updateAffiliate", "commissionStats", "commissionStatsByAffiliate"} -> {"admin"}
      [] op \in {"updateTherapist", "deleteService", "updateService"} -> {"admin", "therapist"}
      [] OTHER -> AllRoles

\* a body without commission_rate
NoRate == -1000

\* a body without price
NoPrice == -1000

\* isFloat() alone, with no bounds
RateIsFloat(rate) == TRUE

\* isFloat({ min: 0, max: 100 })
RateInRange(rate) == 0 <= rate /\ rate <= 100

\* express-validator's verdict on the body, and the first query of the handler
Validated(op, args) ==
    CASE op = "createBooking" -> args.valid
      [] op = "createAffiliate" -> args.valid /\ RateInRange(args.commission_rate)
      [] op = "createTherapist" -> RateInRange(args.commission_rate)
      [] op \in {"updateAffiliate", "updateTherapist"} ->
           args.commission_rate = NoRate \/ RateInRange(args.commission_rate)
      [] op = "updateService" -> args.price = NoPrice \/ args.price >= 1
      [] OTHER -> TRUE

\* the handlers that build their UPDATE from the fields of the body
NoFields(op, args) ==
    CASE op = "updateProfile" -> ~args.name /\ args.email = NoStr
      [] op = "updateUser" ->
           ~args.name /\ args.email = NoStr /\ args.role = NoStr /\ args.is_active = "undefined"
      [] op = "updateAffiliate" -> args.commission_rate = NoRate /\ args.is_active = "undefined"
      [] op = "updateTherapist" -> args.commission_rate = NoRate /\ args.is_available = "undefined"
      [] op = "updateService" -> args.price = NoPrice /\ args.is_active = "undefined"
      [] OTHER -> FALSE

FirstPc(op, args) ==
    CASE op = "createBooking" -> "svc"
      [] op = "confirm" -> "confirm"
      [] op = "cancel" -> "cancel"
      [] op = "updateProfile" -> IF args.email # NoStr THEN "profCheck" ELSE "profUpdate"
      [] op = "updateUser" -> IF args.email # NoStr THEN "admCheck" ELSE "admUpdate"
      [] op = "createAffiliate" -> "affUser"
      [] op = "updateAffiliate" -> "affUpdate"
      [] op = "createTherapist" -> "thUser"
      [] op = "updateTherapist" -> "thUpdate"
      [] op = "deleteService" -> "svcDelCheck"
      [] op = "updateService" -> "svcUpdate"
      [] op = "payCommission" -> "paySelect"
      [] op = "getCommission" -> "getCommission"
      [] op = "commissionStats" -> "stats"
      [] op = "availability" -> "availability"
      [] op \in {"logout", "refresh", "verify"} -> op
      [] OTHER -> "done"

InitLoc(op) ==
    CASE op = "createBooking" ->
           [service |-> [id |-> NULL, price |-> 0], affiliate_id |-> NULL, booking_id |-> NULL, rate |-> 0]
      [] op = "createAffiliate" -> [finalReferralCode |-> NoStr]
      [] op = "payCommission" -> [commission |-> [id |-> NULL, affiliate_id |-> NULL, amount |-> 0]]
      [] OTHER -> NoLoc

\* the middleware chain with the role test done on the role the token carries
AuthStepTrustingTokenRole(r) ==
    /\ req[r].pc = "auth"
    /\ \E fails \in BOOLEAN :
         LET a == authenticateToken(req[r].token, users, fails)
             op == req[r].op
         IN IF ~a.next
              THEN Answer(r, a.status, a.message, a.threw)
            ELSE IF ~requireRole(RouteRoles(op), [a.user EXCEPT !.role = req[r].token.role])
              THEN req' = [req EXCEPT ![r] = [IdleReq EXCEPT !.rid = req[r].rid, !.op = op,
                              !.args = Addressed(op, req[r].args),
                              !.status = 403, !.message = "Permissão negada", !.nexted = TRUE]]
            ELSE IF ~Validated(op, req[r].args)
              THEN req' = [req EXCEPT ![r] = [IdleReq EXCEPT !.rid = req[r].rid, !.op = op,
                              !.args = Addressed(op, req[r].args),
                              !.status = 400, !.message = "Dados inválidos", !.nexted = TRUE]]
            ELSE IF NoFields(op, req[r].args)
              THEN req' = [req EXCEPT ![r] = [IdleReq EXCEPT !.rid = req[r].rid, !.op = op,
                              !.args = Addressed(op, req[r].args),
                              !.status = 400, !.message = "Nenhum campo para atualizar", !.nexted = TRUE]]
            ELSE req' = [req EXCEPT ![r].pc = FirstPc(op, req[r].args), ![r].user = a.user,
                                    ![r].nexted = TRUE, ![r].loc = InitLoc(op)]
    /\ UNCHANGED <<tables, issued, nreq>>

\* the middleware chain of a route up to the handler's first query
AuthStep(r) ==
    /\ req[r].pc = "auth"
    /\ \E fails \in BOOLEAN :
         LET a == authenticateToken(req[r].token, users, fails)
             op == req[r].op
         IN IF ~a.next
              THEN Answer(r, a.status, a.message, a.threw)
            ELSE IF ~requireRole(RouteRoles(op), a.user)
              THEN req' = [req EXCEPT ![r] = [IdleReq EXCEPT !.rid = req[r].rid, !.op = op,
                              !.args = Addressed(op, req[r].args),
                              !.status = 403, !.message = "Permissão negada", !.nexted = TRUE]]
            ELSE IF ~Validated(op, req[r].args)
              THEN req' = [req EXCEPT ![r] = [IdleReq EXCEPT !.rid = req[r].rid, !.op = op,
                              !.args = Addressed(op, req[r].args),
                              !.status = 400, !.message = "Dados inválidos", !.nexted = TRUE]]
            ELSE IF NoFields(op, req[r].args)
              THEN req' = [req EXCEPT ![r] = [IdleReq EXCEPT !.rid = req[r].rid, !.op = op,
                              !.args = Addressed(op, req[r].args),
                              !.status = 400, !.message = "Nenhum campo para atualizar", !.nexted = TRUE]]
            ELSE req' = [req EXCEPT ![r].pc = FirstPc(op, req[r].args), ![r].user = a.user,
                                    ![r].nexted = TRUE, ![r].loc = InitLoc(op)]
    /\ UNCHANGED <<tables, issued, nreq>>

(***************************************************************************)
(* config/database: transaction(callback).  BEGIN, the callback's queries  *)
(* on one client, COMMIT; ROLLBACK and rethrow when the callback throws.   *)
(* Isolation is the store's default, READ COMMITTED: a query sees the rows *)
(* committed before it runs and the transaction's own writes.              *)
(***************************************************************************)
Visible(r, rows, field) == rows \cup req[r].tx[field]

\* the catch block of each handler: the status and the message it answers
Catch(op, message) ==
    CASE op = "createBooking" ->
           [status |-> 500, message |-> IF message # NoStr THEN message ELSE GenericError]
      [] op \in {"createAffiliate", "createTherapist", "payCommission"} ->
           [status |-> 400, message |-> IF message # NoStr THEN message ELSE GenericError]
      [] OTHER -> [status |-> 500, message |-> GenericError]

\* an error thrown inside transaction(): ROLLBACK, then the handler's catch
Rollback(r, message) ==
    Respond(r, Catch(req[r].op, message).status, Catch(req[r].op, message).message)

\* a query of the handler throws: ROLLBACK inside transaction(), then the catch
StoreThrow(r) ==
    Answer(r, Catch(req[r].op, StoreErrorText).status, Catch(req[r].op, StoreErrorText).message, TRUE)

Success(op) ==
    CASE op = "createBooking" -> [status |-> 201, message |-> "Agendamento criado com sucesso"]
      [] op = "createAffiliate" -> [status |-> 201, message |-> "Afiliado criado com sucesso"]
      [] op = "createTherapist" -> [status |-> 201, message |-> "Terapeuta criado com sucesso"]
      [] op = "payCommission" -> [status |-> 200, message |-> "Comissão marcada como paga com sucesso"]
      [] OTHER -> [status |-> 200, message |-> NoStr]

(***************************************************************************)
(* routes/bookings.js: POST /                                              *)
(***************************************************************************)
ActiveStatus(st) == st \notin {"cancelled", "completed"}

\* SELECT * FROM services WHERE id = $1 AND therapist_id = $2 AND is_active = true
serviceRows(rows, service_id, therapist_id) ==
    {s \in rows : s.id = service_id /\ s.therapist_id = therapist_id /\ s.is_active}

\* the conflict query with the status test narrowed to status = 'pending'
conflictRowsPendingOnly(rows, therapist_id, date, time) ==
    {b \in rows : /\ b.therapist_id = therapist_id
                  /\ b.scheduled_date = date
                  /\ b.scheduled_time = time
                  /\ b.status = "pending"}

\* SELECT id FROM bookings WHERE therapist_id = $1 AND scheduled_date = $2
\*   AND scheduled_time = $3 AND status NOT IN ('cancelled', 'completed')
conflictRows(rows, therapist_id, date, time) ==
    {b \in rows : /\ b.therapist_id = therapist_id
                  /\ b.scheduled_date = date
                  /\ b.scheduled_time = time
                  /\ ActiveStatus(b.status)}

\* SELECT id FROM affiliates WHERE referral_code = $1
affiliateRows(rows, code) == {a \in rows : a.referral_code = code}

\* the amount cut to whole cents instead of rounded
commissionAmountTruncated(price, commissionRate) == (price * commissionRate) \div 100

\* (service.price * commissionRate) / 100, stored as DECIMAL(10,2); amounts in cents
commissionAmount(price, commissionRate) == (price * commissionRate + 50) \div 100

ServiceLookup(r) ==
    /\ req[r].pc = "svc"
    /\ \E fails \in BOOLEAN :
         LET a == req[r].args
             found == serviceRows(services, a.service_id, a.therapist_id)
         IN IF fails THEN StoreThrow(r)
            ELSE IF found = {} THEN Rollback(r, "Serviço não encontrado ou inativo")
            ELSE \E s \in found :
                   req' = [req EXCEPT ![r].pc = "conflict",
                                      ![r].loc.service = [id |-> s.id, price |-> s.price]]
    /\ UNCHANGED <<tables, issued, nreq>>

ConflictCheck(r) ==
    /\ req[r].pc = "conflict"
    /\ \E fails \in BOOLEAN :
         LET a == req[r].args
             found == conflictRows(Visible(r, bookings, "bookings"),
                                   a.therapist_id, a.scheduled_date, a.scheduled_time)
         IN IF fails THEN StoreThrow(r)
            ELSE IF found # {} THEN Rollback(r, "Horário não disponível")
            ELSE req' = [req EXCEPT ![r].pc = IF a.affiliate_code # NoStr THEN "aff" ELSE "insBooking"]
    /\ UNCHANGED <<tables, issued, nreq>>

\* the lookup with an unmatched code treated as an error
AffiliateLookupRequired(r) ==
    /\ req[r].pc = "aff"
    /\ \E fails \in BOOLEAN :
         LET found == affiliateRows(Visible(r, affiliates, "affiliates"), req[r].args.affiliate_code)
         IN IF fails THEN StoreThrow(r)
            ELSE IF found = {} THEN Rollback(r, "Código de afiliado inválido")
            ELSE \E f \in found :
                   req' = [req EXCEPT ![r].pc = "insBooking", ![r].loc.affiliate_id = f.id]
    /\ UNCHANGED <<tables, issued, nreq>>

AffiliateLookup(r) ==
    /\ req[r].pc = "aff"
    /\ \E fails \in BOOLEAN :
         LET found == affiliateRows(Visible(r, affiliates, "affiliates"), req[r].args.affiliate_code)
         IN IF fails THEN StoreThrow(r)
            ELSE IF found = {} THEN req' = [req EXCEPT ![r].pc = "insBooking"]
            ELSE \E f \in found :
                   req' = [req EXCEPT ![r].pc = "insBooking", ![r].loc.affiliate_id = f.id]
    /\ UNCHANGED <<tables, issued, nreq>>

NewBooking(r, id) ==
    [id |-> id, service_id |-> req[r].args.service_id, therapist_id |-> req[r].args.therapist_id,
     affiliate_id |-> req[r].loc.affiliate_id,
     scheduled_date |-> req[r].args.scheduled_date, scheduled_time |-> req[r].args.scheduled_time,
     total_amount |-> req[r].loc.service.price, status |-> "pending",
     cancellation_reason |-> NoStr, rid |-> req[r].rid]

\* the INSERT issued with pool.query instead of the transaction's client
InsertBookingOutsideTransaction(r) ==
    /\ req[r].pc = "insBooking"
    /\ \E fails \in BOOLEAN :
         IF fails THEN StoreThrow(r) /\ UNCHANGED bookings
         ELSE LET id == FreshId(bookings, PendingAll("bookings"))
              IN /\ bookings' = bookings \cup {NewBooking(r, id)}
                 /\ req' = [req EXCEPT ![r].loc.booking_id = id,
                              ![r].pc = IF req[r].loc.affiliate_id # NULL THEN "rate" ELSE "commit"]
    /\ UNCHANGED <<users, affiliates, therapists, services, commissions, issued, nreq>>

InsertBooking(r) ==
    /\ req[r].pc = "insBooking"
    /\ \E fails \in BOOLEAN :
         IF fails THEN StoreThrow(r)
         ELSE LET id == FreshId(bookings, PendingAll("bookings"))
              IN req' = [req EXCEPT ![r].tx.bookings = @ \cup {NewBooking(r, id)},
                           ![r].loc.booking_id = id,
                           ![r].pc = IF req[r].loc.affiliate_id # NULL THEN "rate" ELSE "commit"]
    /\ UNCHANGED <<tables, issued, nreq>>

\* the rate lookup with its rows.length test inverted: no commission is inserted
RateLookupInverted(r) ==
    /\ req[r].pc = "rate"
    /\ \E fails \in BOOLEAN :
         IF fails THEN StoreThrow(r) ELSE req' = [req EXCEPT ![r].pc = "commit"]
    /\ UNCHANGED <<tables, issued, nreq>>

\* SELECT commission_rate FROM affiliates WHERE id = $1
RateLookup(r) ==
    /\ req[r].pc = "rate"
    /\ \E fails \in BOOLEAN :
         LET found == {a \in Visible(r, affiliates, "affiliates") : a.id = req[r].loc.affiliate_id}
         IN IF fails THEN StoreThrow(r)
            ELSE IF found = {} THEN req' = [req EXCEPT ![r].pc = "commit"]
            ELSE \E f \in found :
                   req' = [req EXCEPT ![r].pc = "insCommission", ![r].loc.rate = f.commission_rate]
    /\ UNCHANGED <<tables, issued, nreq>>

\* the commission row with the service's id passed as booking_id
NewCommissionOfService(r, id) ==
    [id |-> id, affiliate_id |-> req[r].loc.affiliate_id, booking_id |-> req[r].loc.service.id,
     amount |-> commissionAmount(req[r].loc.service.price, req[r].loc.rate),
     percentage |-> req[r].loc.rate, status |-> "pending"]

NewCommission(r, id) ==
    [id |-> id, affiliate_id |-> req[r].loc.affiliate_id, booking_id |-> req[r].loc.booking_id,
     amount |-> commissionAmount(req[r].loc.service.price, req[r].loc.rate),
     percentage |-> req[r].loc.rate, status |-> "pending"]

InsertCommission(r) ==
    /\ req[r].pc = "insCommission"
    /\ \E fails \in BOOLEAN :
         IF fails THEN StoreThrow(r)
         ELSE LET id == FreshId(commissions, PendingAll("commissions"))
              IN req' = [req EXCEPT ![r].tx.commissions = @ \cup {NewCommission(r, id)},
                                    ![r].pc = "commit"]
    /\ UNCHANGED <<tables, issued, nreq>>

RECURSIVE SumAmounts(_)
SumAmounts(S) ==
    IF S = {} THEN 0
    ELSE LET x == CHOOSE y \in S : TRUE IN x.amount + SumAmounts(S \ {x})

\* the transaction's UPDATEs, applied to the committed rows
ApplyPaid(rows, paid) ==
    {IF c.id \in paid THEN [c EXCEPT !.status = "paid"] ELSE c : c \in rows}

ApplyCredit(rows, credit) ==
    {[a EXCEPT !.total_commission = @ + SumAmounts({c \in credit : c.affiliate_id = a.id})] : a \in rows}

\* COMMIT, then the handler's success response
Commit(r) ==
    /\ req[r].pc = "commit"
    /\ \E fails \in BOOLEAN :
         IF fails
           THEN /\ StoreThrow(r)
                /\ UNCHANGED <<bookings, commissions, affiliates, therapists>>
           ELSE /\ bookings' = bookings \cup req[r].tx.bookings
                /\ commissions' = ApplyPaid(commissions, req[r].tx.paid) \cup req[r].tx.commissions
                /\ affiliates' = ApplyCredit(affiliates, req[r].tx.credit) \cup req[r].tx.affiliates
                /\ therapists' = therapists \cup req[r].tx.therapists
                /\ Respond(r, Success(req[r].op).status, Success(req[r].op).message)
    /\ UNCHANGED <<users, services, issued, nreq>>

(***************************************************************************)
(* routes/bookings.js: PUT /:id/confirm and PUT /:id/cancel                *)
(***************************************************************************)
\* the confirm UPDATE without its status test
confirmRowsAnyStatus(rows, id) == {b \in rows : b.id = id}

\* UPDATE bookings SET status = 'confirmed' WHERE id = $1 AND status = 'pending'
confirmRows(rows, id) == {b \in rows : b.id = id /\ b.status = "pending"}

\* the cancel UPDATE without its status test
cancelRowsAnyStatus(rows, id) == {b \in rows : b.id = id}

\* UPDATE bookings SET status = 'cancelled', cancellation_reason = $2
\*   WHERE id = $1 AND status IN ('pending', 'confirmed')
cancelRows(rows, id) == {b \in rows : b.id = id /\ b.status \in {"pending", "confirmed"}}

\* the confirm handler without its rows.length test
ConfirmBookingUnchecked(r) ==
    /\ req[r].pc = "confirm"
    /\ \E fails \in BOOLEAN :
         LET hit == confirmRows(bookings, req[r].args.id)
         IN IF fails THEN StoreThrow(r) /\ UNCHANGED bookings
            ELSE /\ bookings' = (bookings \ hit) \cup {[b EXCEPT !.status = "confirmed"] : b \in hit}
                 /\ Respond(r, 200, "Agendamento confirmado com sucesso")
    /\ UNCHANGED <<users, affiliates, therapists, services, commissions, issued, nreq>>

ConfirmBooking(r) ==
    /\ req[r].pc = "confirm"
    /\ \E fails \in BOOLEAN :
         LET hit == confirmRows(bookings, req[r].args.id)
         IN IF fails THEN StoreThrow(r) /\ UNCHANGED bookings
            ELSE IF hit = {}
              THEN /\ Respond(r, 404, "Agendamento não encontrado ou já processado")
                   /\ UNCHANGED bookings
            ELSE /\ bookings' = (bookings \ hit) \cup {[b EXCEPT !.status = "confirmed"] : b \in hit}
                 /\ Respond(r, 200, "Agendamento confirmado com sucesso")
    /\ UNCHANGED <<users, affiliates, therapists, services, commissions, issued, nreq>>

CancelBooking(r) ==
    /\ req[r].pc = "cancel"
    /\ \E fails \in BOOLEAN :
         LET hit == cancelRows(bookings, req[r].args.id)
         IN IF fails THEN StoreThrow(r) /\ UNCHANGED bookings
            ELSE IF hit = {}
              THEN /\ Respond(r, 404, "Agendamento não encontrado ou não pode ser cancelado")
                   /\ UNCHANGED bookings
            ELSE /\ bookings' = (bookings \ hit) \cup
                        {[b EXCEPT !.status = "cancelled", !.cancellation_reason = req[r].args.reason] : b \in hit}
                 /\ Respond(r, 200, "Agendamento cancelado com sucesso")
    /\ UNCHANGED <<users, affiliates, therapists, services, commissions, issued, nreq>>

(***************************************************************************)
(* The store after the migration and the set-up of one clinic              *)
(***************************************************************************)
MasterUser == [id |-> 1, email |-> "celsot.holistics@gmail.com", role |-> "admin", is_active |-> TRUE]

InitUsers ==
    {MasterUser,
     [id |-> 2, email |-> "afiliado@lunara.com", role |-> "affiliate", is_active |-> TRUE],
     [id |-> 3, email |-> "terapeuta@lunara.com", role |-> "therapist", is_active |-> TRUE]}

InitTherapists == {[id |-> 1, user_id |-> 3, commission_rate |-> 30, is_available |-> TRUE, rid |-> 0],
                   [id |-> 2, user_id |-> 1, commission_rate |-> 30, is_available |-> TRUE, rid |-> 0]}

InitServices ==
    {[id |-> 1, therapist_id |-> 1, price |-> 10000, duration_minutes |-> 60, is_active |-> TRUE],
     [id |-> 2, therapist_id |-> 1, price |-> 5000, duration_minutes |-> 60, is_active |-> FALSE],
     [id |-> 3, therapist_id |-> 2, price |-> 8000, duration_minutes |-> 60, is_active |-> TRUE]}

InitAffiliates ==
    {[id |-> 1, user_id |-> 2, referral_code |-> "LUNA15", commission_rate |-> 15,
      total_commission |-> 0, is_active |-> TRUE, rid |-> 0]}

\* a booking of an earlier day's slot that has been marked completed
CompletedBooking ==
    [id |-> 1, service_id |-> 1, therapist_id |-> 1, affiliate_id |-> NULL,
     scheduled_date |-> "2025-08-01", scheduled_time |-> "09:00",
     total_amount |-> 10000, status |-> "completed", cancellation_reason |-> NoStr, rid |-> 0]

Init ==
    /\ users = InitUsers
    /\ affiliates = InitAffiliates
    /\ therapists = InitTherapists
    /\ services = InitServices
    /\ bookings = {CompletedBooking}
    /\ commissions = {}
    /\ issued = {1, 2, 3, 4}
    /\ req = [r \in Reqs |-> IdleReq]
    /\ nreq = 0

(***************************************************************************)
(* Requests to the bookings routes                                         *)
(***************************************************************************)
ServiceIds == {1, 2, 3, 4}
Codes == {NoStr, "LUNA15", "NOPE"}

BookingBody(service_id, time, code, valid) ==
    [therapist_id |-> 1, service_id |-> service_id, scheduled_date |-> "2025-08-01",
     scheduled_time |-> time, affiliate_code |-> code, valid |-> valid]

\* a body whose service lookup finds nothing is read no further: one time and
\* no code stand for all of them
BookingBodies ==
    {BookingBody(1, t, c, TRUE) : t \in Times, c \in Codes}
      \cup {BookingBody(s, "09:00", NoStr, TRUE) : s \in ServiceIds}
      \cup {BookingBody(1, "09:00", NoStr, FALSE)}

BookingTokens == {ValidToken(1), NoToken}

PostBooking(r) ==
    /\ \E token \in BookingTokens, body \in BookingBodies :
         /\ token = NoToken => body = BookingBody(1, "09:00", NoStr, FALSE)
         /\ Begin(r, "createBooking", token, body)
    /\ UNCHANGED <<tables, issued>>

BookingIds == {1, 2, 3}

PutConfirm(r) ==
    /\ \E id \in BookingIds : Begin(r, "confirm", ValidToken(1), [id |-> id])
    /\ UNCHANGED <<tables, issued>>

PutCancel(r) ==
    /\ \E id \in BookingIds : Begin(r, "cancel", ValidToken(1), [id |-> id, reason |-> "cliente desistiu"])
    /\ UNCHANGED <<tables, issued>>

NextBookings ==
    \E r \in Reqs :
        \/ PostBooking(r)
        \/ PutConfirm(r)
        \/ PutCancel(r)
        \/ AuthStep(r)
        \/ ServiceLookup(r)
        \/ ConflictCheck(r)
        \/ AffiliateLookup(r)
        \/ InsertBooking(r)
        \/ RateLookup(r)
        \/ InsertCommission(r)
        \/ Commit(r)
        \/ ConfirmBooking(r)
        \/ CancelBooking(r)

SpecBookings == Init /\ [][NextBookings]_vars

(***************************************************************************)
(* Claims about the bookings routes                                        *)
(***************************************************************************)
Finished(r) == req[r].rid # 0 /\ req[r].pc = "done"

\* the bookings that hold a slot, as the claims word it
Taken(rows, therapist_id, date, time) ==
    \E b \in rows : /\ b.therapist_id = therapist_id
                    /\ b.scheduled_date = date
                    /\ b.scheduled_time = time
                    /\ b.status \in {"pending", "confirmed"}

BookingsOf(rid) == {b \in bookings : b.rid = rid}

\* C1: when the conflict check of POST /bookings runs for a therapist, date and
\* time at which a booking with status pending or confirmed is stored, the
\* request ends with an error response carrying 'Horário não disponível'
\* (status 500) and stores no booking and no commission; when the only bookings
\* of the slot are cancelled or completed, the request goes on to the insert.
\* (If the check's own query throws, the request fails too and stores nothing.)
C1_ConflictRejected ==
    [][\A r \in Reqs :
         (req[r].pc = "conflict" /\ req'[r].pc # "conflict") =>
           LET a == req[r].args
           IN IF req'[r].threw
                THEN /\ req'[r].pc = "done" /\ req'[r].status # 201
                     /\ bookings' = bookings /\ commissions' = commissions
              ELSE IF Taken(bookings, a.therapist_id, a.scheduled_date, a.scheduled_time)
                THEN /\ req'[r].pc = "done"
                     /\ req'[r].status = 500
                     /\ req'[r].message = "Horário não disponível"
                     /\ req'[r].tx = EmptyTx
                     /\ bookings' = bookings /\ commissions' = commissions
              ELSE req'[r].pc \in {"aff", "insBooking"}]_vars

\* a request was refused for a taken slot, and a booking was accepted on the
\* slot of the completed booking
C1_Witness ==
    /\ \E r \in Reqs : /\ Finished(r) /\ req[r].op = "createBooking"
                       /\ req[r].message = "Horário não disponível"
    /\ CompletedBooking \in bookings
    /\ \E b \in bookings : /\ b.status = "pending"
                           /\ b.therapist_id = CompletedBooking.therapist_id
                           /\ b.scheduled_date = CompletedBooking.scheduled_date
                           /\ b.scheduled_time = CompletedBooking.scheduled_time

\* C2: there are never two bookings with status pending or confirmed for the
\* same therapist, scheduled_date and scheduled_time.
C2_NoDoubleBooking ==
    \A b1, b2 \in bookings :
        (/\ b1.id # b2.id
         /\ b1.status \in {"pending", "confirmed"}
         /\ b2.status \in {"pending", "confirmed"}
         /\ b1.therapist_id = b2.therapist_id
         /\ b1.scheduled_date = b2.scheduled_date) => b1.scheduled_time # b2.scheduled_time

\* C3: booking creation is atomic.  A stored booking has a commission row exactly
\* when it carries an affiliate, every commission row belongs to a stored
\* booking, a create-booking request that is still running or that failed has
\* no row of its own in bookings (nor in commissions), and one that answered 201
\* has exactly one booking.
C3_BookingAtomic ==
    /\ \A b \in bookings :
         (b.affiliate_id # NULL) <=> (\E c \in commissions : c.booking_id = b.id)
    /\ \A c \in commissions : \E b \in bookings : b.id = c.booking_id
    /\ \A r \in Reqs :
         req[r].op = "createBooking" =>
           IF req[r].pc = "done" /\ req[r].status = 201
             THEN Cardinality(BookingsOf(req[r].rid)) = 1
             ELSE BookingsOf(req[r].rid) = {}

\* one request stored both rows, another failed and stored none
C3_Witness ==
    /\ \E b \in bookings : b.affiliate_id # NULL /\ \E c \in commissions : c.booking_id = b.id
    /\ \E r \in Reqs : /\ Finished(r) /\ req[r].op = "createBooking"
                       /\ req[r].threw /\ BookingsOf(req[r].rid) = {}

\* C4 as stated: whenever the booking id exists, confirm sets the status to
\* 'confirmed' and cancel sets it to 'cancelled', whatever the current status
\* (a request whose query throws aside).
C4_UnconditionalUpdate ==
    [][\A r \in Reqs :
         (req[r].pc \in {"confirm", "cancel"} /\ req'[r].pc = "done" /\ ~req'[r].threw
            /\ req[r].args.id \in Ids(bookings)) =>
           Row(bookings', req[r].args.id).status =
               (IF req[r].pc = "confirm" THEN "confirmed" ELSE "cancelled")]_vars

\* C4 amended: confirm sets the status to 'confirmed' (200) only when the booking
\* exists and is pending, cancel sets it to 'cancelled' with the reason (200)
\* only when it exists and is pending or confirmed; in every other case the
\* answer is 404 (500 when the query throws) and no booking row changes.
C4_ConditionalUpdate ==
    [][\A r \in Reqs :
         (req[r].pc \in {"confirm", "cancel"} /\ req'[r].pc = "done") =>
           LET id == req[r].args.id
               allowed == IF req[r].pc = "confirm" THEN {"pending"} ELSE {"pending", "confirmed"}
               target == IF req[r].pc = "confirm" THEN "confirmed" ELSE "cancelled"
           IN IF ~req'[r].threw /\ id \in Ids(bookings) /\ Row(bookings, id).status \in allowed
                THEN /\ req'[r].status = 200
                     /\ Row(bookings', id).status = target
                     /\ req[r].pc = "cancel" =>
                          Row(bookings', id).cancellation_reason = req[r].args.reason
                     /\ {b \in bookings' : b.id # id} = {b \in bookings : b.id # id}
                ELSE /\ req'[r].status = (IF req'[r].threw THEN 500 ELSE 404)
                     /\ bookings' = bookings]_vars

\* a confirm of the completed booking was answered 404, a cancelled booking exists
C4_Witness ==
    /\ \E r \in Reqs : /\ Finished(r) /\ req[r].op = "confirm"
                       /\ req[r].args.id = CompletedBooking.id /\ req[r].status = 404
    /\ CompletedBooking \in bookings
    /\ \E b \in bookings : b.status = "cancelled"

\* C5 as stated: every commission row belongs to a booking whose status is
\* 'completed'.
C5_CommissionOnlyForCompleted ==
    \A c \in commissions :
        \E b \in bookings : b.id = c.booking_id /\ b.status = "completed"

\* C5 amended: a commission row is stored, with status 'pending', in the same
\* commit as its booking, which is then pending and carries the commission's
\* affiliate; it stays whatever becomes of the booking, so every commission row
\* belongs to a stored booking of the same affiliate, of any status.
C5_CommissionWithBooking ==
    /\ [](\A c \in commissions :
            \E b \in bookings : b.id = c.booking_id /\ b.affiliate_id = c.affiliate_id)
    /\ [][\A c \in commissions' \ commissions :
            /\ c.status = "pending"
            /\ \E b \in bookings' \ bookings :
                 b.id = c.booking_id /\ b.status = "pending" /\ b.affiliate_id = c.affiliate_id]_vars

\* a commission row of a booking that was cancelled
C5_Witness ==
    \E c \in commissions :
        \E b \in bookings : b.id = c.booking_id /\ b.status = "cancelled"

\* C6: whenever a store query fails inside a handler, the response has status
\* 500 and the generic message, never the store's own error text.
C6_StoreErrorsGeneric ==
    \A r \in Reqs :
        (Finished(r) /\ req[r].threw) =>
            req[r].status = 500 /\ req[r].message = GenericError

\* the messages a handler answers when the resource it addresses is not stored
NotFoundMessages ==
    {"Serviço não encontrado ou inativo", "Comissão não encontrada ou já processada",
     "Usuário não encontrado", "Agendamento não encontrado ou já processado",
     "Agendamento não encontrado ou não pode ser cancelado"}

\* C7: every operation that addresses a resource that does not exist answers
\* with status 404.
C7_NotFoundIs404 ==
    \A r \in Reqs :
        (Finished(r) /\ req[r].nexted /\ req[r].message \in NotFoundMessages) =>
            req[r].status = 404

(***************************************************************************)
(* routes/auth.js: POST /register; routes/users.js: PUT /profile, PUT /:id  *)
(***************************************************************************)
\* the users table without its UNIQUE (email) constraint
UsersEmailNotConstrained(rows, id, email) == FALSE

\* email VARCHAR(255) UNIQUE NOT NULL: the row with this id cannot take the email
UsersEmailTaken(rows, id, email) == \E u \in rows : u.email = email /\ u.id # id

\* SELECT id FROM users WHERE email = $1 [AND id != $2]
existingUsers(rows, id, email) == {u \in rows : u.email = email /\ u.id # id}

\* a user id no row and no issued token has
FreshUserId == Max(Ids(users) \cup issued) + 1

RegisterCheck(r) ==
    /\ req[r].pc = "regCheck"
    /\ \E fails \in BOOLEAN :
         IF ~req[r].args.valid THEN Respond(r, 400, "Dados inválidos")
         ELSE IF fails THEN StoreThrow(r)
         ELSE IF existingUsers(users, NULL, req[r].args.email) # {}
           THEN Respond(r, 400, "Email já cadastrado")
         ELSE req' = [req EXCEPT ![r].pc = "regInsert"]
    /\ UNCHANGED <<tables, issued, nreq>>

RegisterInsert(r) ==
    /\ req[r].pc = "regInsert"
    /\ \E fails \in BOOLEAN :
         IF fails \/ UsersEmailTaken(users, NULL, req[r].args.email)
           THEN StoreThrow(r) /\ UNCHANGED <<users, issued>>
           ELSE /\ users' = users \cup
                     {[id |-> FreshUserId, email |-> req[r].args.email,
                       role |-> IF req[r].args.role = NoStr THEN "affiliate" ELSE req[r].args.role,
                       is_active |-> TRUE]}
                /\ issued' = issued \cup {FreshUserId}
                /\ Respond(r, 201, "Usuário criado com sucesso")
    /\ UNCHANGED <<affiliates, therapists, services, bookings, commissions, nreq>>

ProfileCheck(r) ==
    /\ req[r].pc = "profCheck"
    /\ \E fails \in BOOLEAN :
         IF fails THEN StoreThrow(r)
         ELSE IF existingUsers(users, req[r].user.id, req[r].args.email) # {}
           THEN Respond(r, 400, "Email já está em uso")
         ELSE req' = [req EXCEPT ![r].pc = "profUpdate"]
    /\ UNCHANGED <<tables, issued, nreq>>

\* UPDATE users SET <the fields given> WHERE id = $n
UpdateUserRow(u, args) ==
    [u EXCEPT !.email = IF args.email # NoStr THEN args.email ELSE @,
              !.role = IF args.role # NoStr THEN args.role ELSE @,
              !.is_active = IF args.is_active = "undefined" THEN @ ELSE args.is_active = "true"]

ProfileUpdate(r) ==
    /\ req[r].pc = "profUpdate"
    /\ \E fails \in BOOLEAN :
         LET id == req[r].user.id
             hit == UserRows(users, id)
             fields == [email |-> req[r].args.email, role |-> NoStr, is_active |-> "undefined"]
         IN IF fails \/ (hit # {} /\ fields.email # NoStr /\ UsersEmailTaken(users, id, fields.email))
              THEN StoreThrow(r) /\ UNCHANGED users
              ELSE /\ users' = (users \ hit) \cup {UpdateUserRow(u, fields) : u \in hit}
                   /\ Respond(r, 200, "Perfil atualizado com sucesso")
    /\ UNCHANGED <<affiliates, therapists, services, bookings, commissions, issued, nreq>>

AdminCheck(r) ==
    /\ req[r].pc = "admCheck"
    /\ \E fails \in BOOLEAN :
         IF fails THEN StoreThrow(r)
         ELSE IF existingUsers(users, req[r].args.id, req[r].args.email) # {}
           THEN Respond(r, 400, "Email já está em uso")
         ELSE req' = [req EXCEPT ![r].pc = "admUpdate"]
    /\ UNCHANGED <<tables, issued, nreq>>

AdminUpdate(r) ==
    /\ req[r].pc = "admUpdate"
    /\ \E fails \in BOOLEAN :
         LET id == req[r].args.id
             hit == UserRows(users, id)
         IN IF fails \/ (hit # {} /\ req[r].args.email # NoStr
                           /\ UsersEmailTaken(users, id, req[r].args.email))
              THEN StoreThrow(r) /\ UNCHANGED users
            ELSE IF hit = {}
              THEN Respond(r, 404, "Usuário não encontrado") /\ UNCHANGED users
            ELSE /\ users' = (users \ hit) \cup {UpdateUserRow(u, req[r].args) : u \in hit}
                 /\ Respond(r, 200, "Usuário atualizado com sucesso")
    /\ UNCHANGED <<affiliates, therapists, services, bookings, commissions, issued, nreq>>

(***************************************************************************)
(* Requests to the auth and users routes                                   *)
(***************************************************************************)
\* an address no user has, and the address of user 3
Emails == {"novo@lunara.com", "terapeuta@lunara.com"}

RegisterBodies ==
    {[email |-> e, role |-> ro, valid |-> TRUE] : e \in Emails, ro \in {NoStr, "admin"}}
      \cup {[email |-> NoStr, role |-> NoStr, valid |-> FALSE]}

ProfileBodies ==
    {[name |-> FALSE, email |-> e] : e \in Emails}
      \cup {[name |-> n, email |-> NoStr] : n \in BOOLEAN}

UserBody(id, email, role, is_active) ==
    [id |-> id, name |-> FALSE, email |-> email, role |-> role, is_active |-> is_active]

\* user 2, and an id no user has
AdminBodies ==
    {UserBody(2, e, NoStr, "undefined") : e \in Emails}
      \cup {UserBody(2, NoStr, ro, "undefined") : ro \in {"admin", "affiliate"}}
      \cup {UserBody(2, NoStr, NoStr, a) : a \in {"true", "false", "undefined"}}
      \cup {UserBody(9, NoStr, NoStr, "false")}

\* the callers: the master admin, user 2, and a user whose row has been deleted
DeletedUser == 4
Callers == {1, 2, DeletedUser}

UserTokens ==
    {NoToken, MalformedToken, ExpiredToken(2)} \cup {ValidToken(u) : u \in issued \cap Callers}

PostRegister(r) ==
    /\ \E body \in RegisterBodies : BeginAt(r, "register", "regCheck", NoToken, body)
    /\ UNCHANGED <<tables, issued>>

PutProfile(r) ==
    /\ \E token \in UserTokens, body \in ProfileBodies :
         /\ token.kind # "valid" => body = [name |-> TRUE, email |-> NoStr]
         /\ Begin(r, "updateProfile", token, body)
    /\ UNCHANGED <<tables, issued>>

PutUser(r) ==
    /\ \E token \in UserTokens, body \in AdminBodies :
         /\ token.kind # "valid" => body = UserBody(2, NoStr, NoStr, "false")
         /\ Begin(r, "updateUser", token, body)
    /\ UNCHANGED <<tables, issued>>

NextUsers ==
    \E r \in Reqs :
        \/ PostRegister(r)
        \/ PutProfile(r)
        \/ PutUser(r)
        \/ AuthStep(r)
        \/ RegisterCheck(r)
        \/ RegisterInsert(r)
        \/ ProfileCheck(r)
        \/ ProfileUpdate(r)
        \/ AdminCheck(r)
        \/ AdminUpdate(r)

SpecUsers == Init /\ [][NextUsers]_vars

(***************************************************************************)
(* routes/affiliates.js: POST /                                            *)
(***************************************************************************)
\* what generateReferralCode() can return: 8 characters of A-Z0-9
GeneratedCodes == {"ABCD1234", "WXYZ5678"}

\* utils/helpers.js: a random code; nothing is looked up
generateReferralCode == GeneratedCodes

\* the affiliates table without its UNIQUE (referral_code) constraint
AffiliatesCodeNotConstrained(rows, code) == FALSE

\* referral_code VARCHAR(20) UNIQUE NOT NULL: a row of rows has the code
AffiliatesCodeTaken(rows, code) == \E a \in rows : a.referral_code = code

AffiliateUserLookup(r) ==
    /\ req[r].pc = "affUser"
    /\ \E fails \in BOOLEAN :
         IF fails THEN StoreThrow(r)
         ELSE IF UserRows(users, req[r].args.user_id) = {}
           THEN Rollback(r, "Usuário não encontrado")
         ELSE req' = [req EXCEPT ![r].pc = "affExisting"]
    /\ UNCHANGED <<tables, issued, nreq>>

\* SELECT id FROM affiliates WHERE user_id = $1, then the code is settled
AffiliateExisting(r) ==
    /\ req[r].pc = "affExisting"
    /\ \E fails \in BOOLEAN :
         IF fails THEN StoreThrow(r)
         ELSE IF {a \in Visible(r, affiliates, "affiliates") : a.user_id = req[r].args.user_id} # {}
           THEN Rollback(r, "Usuário já é afiliado")
         ELSE \E code \in (IF req[r].args.referral_code # NoStr
                             THEN {req[r].args.referral_code} ELSE generateReferralCode) :
                req' = [req EXCEPT ![r].pc = "affCode", ![r].loc.finalReferralCode = code]
    /\ UNCHANGED <<tables, issued, nreq>>

AffiliateCodeCheck(r) ==
    /\ req[r].pc = "affCode"
    /\ \E fails \in BOOLEAN :
         IF fails THEN StoreThrow(r)
         ELSE IF affiliateRows(Visible(r, affiliates, "affiliates"), req[r].loc.finalReferralCode) # {}
           THEN Rollback(r, "Código de referência já existe")
         ELSE req' = [req EXCEPT ![r].pc = "affInsert"]
    /\ UNCHANGED <<tables, issued, nreq>>

NewAffiliate(r) ==
    [id |-> FreshId(affiliates, PendingAll("affiliates")), user_id |-> req[r].args.user_id,
     referral_code |-> req[r].loc.finalReferralCode,
     commission_rate |-> req[r].args.commission_rate, total_commission |-> 0,
     is_active |-> TRUE, rid |-> req[r].rid]

\* INSERT INTO affiliates: it waits while an open transaction holds a row with
\* the same code, and throws when a committed row has it
InsertAffiliate(r) ==
    /\ req[r].pc = "affInsert"
    /\ ~AffiliatesCodeTaken(PendingOthers(r, "affiliates"), req[r].loc.finalReferralCode)
    /\ \E fails \in BOOLEAN :
         IF fails \/ AffiliatesCodeTaken(affiliates, req[r].loc.finalReferralCode)
           THEN StoreThrow(r)
           ELSE req' = [req EXCEPT ![r].pc = "commit",
                                   ![r].tx.affiliates = @ \cup {NewAffiliate(r)}]
    /\ UNCHANGED <<tables, issued, nreq>>

(***************************************************************************)
(* Requests to the affiliates route                                        *)
(***************************************************************************)
\* users 1 and 3 are no affiliates, user 2 is one, no user has id 9
AffiliateUserIds == {1, 2, 3, 9}
SuppliedCodes == {NoStr, "LUNA15", "ABCD1234"}

AffiliateBody(user_id, referral_code) ==
    [user_id |-> user_id, commission_rate |-> 10, referral_code |-> referral_code, valid |-> TRUE]

AffiliateBodies ==
    {AffiliateBody(u, c) : u \in {1, 3}, c \in SuppliedCodes}
      \cup {AffiliateBody(u, NoStr) : u \in AffiliateUserIds}
      \cup {[AffiliateBody(3, NoStr) EXCEPT !.valid = FALSE]}

AffiliateTokens == {ValidToken(1), ValidToken(2), NoToken}

PostAffiliate(r) ==
    /\ \E token \in AffiliateTokens, body \in AffiliateBodies :
         /\ token # ValidToken(1) => body = AffiliateBody(3, NoStr)
         /\ Begin(r, "createAffiliate", token, body)
    /\ UNCHANGED <<tables, issued>>

NextAffiliates ==
    \E r \in Reqs :
        \/ PostAffiliate(r)
        \/ AuthStep(r)
        \/ AffiliateUserLookup(r)
        \/ AffiliateExisting(r)
        \/ AffiliateCodeCheck(r)
        \/ InsertAffiliate(r)
        \/ Commit(r)

SpecAffiliates == Init /\ [][NextAffiliates]_vars

(***************************************************************************)
(* Claims about the middleware, the users table and the affiliates table   *)
(***************************************************************************)
\* the token verifies, its userId names a stored user, and that user is active
Authentic(token, rows) ==
    /\ token.kind = "valid"
    /\ \E u \in UserRows(rows, token.userId) : u.is_active

\* C8: a handler behind authenticateToken runs only for a request whose token
\* verifies and names a stored user whose is_active is true when the middleware
\* looks the user up, and such a request is passed on.  Any other request ends
\* in the middleware: 401 for a missing token, an unknown user or a deactivated
\* account, 403 for an invalid or expired token; next is not called and no table
\* changes.  So a token issued to a user is refused from the moment the user's
\* is_active is false.  (When the lookup itself throws, the request ends in the
\* middleware as well, with 500 and no change.)
C8_AuthenticateTokenGate ==
    /\ [](\A r \in Reqs :
            (req[r].op # "register" /\ req[r].pc \notin {"auth", "done"}) => req[r].nexted)
    /\ [][\A r \in Reqs :
            (req[r].pc = "auth" /\ req'[r].pc # "auth") =>
              LET token == req[r].token
              IN /\ req'[r].nexted => Authentic(token, users)
                 /\ (Authentic(token, users) /\ ~req'[r].threw) => req'[r].nexted
                 /\ ~req'[r].nexted =>
                      /\ req'[r].pc = "done"
                      /\ tables' = tables
                      /\ req'[r].status =
                           (IF req'[r].threw THEN 500
                            ELSE IF token.kind \in {"malformed", "expired"} THEN 403
                            ELSE 401)]_vars

\* a request with the token of a user whose account was deactivated by the
\* admin has been refused
C8_Witness ==
    \E r \in Reqs : /\ Finished(r)
                    /\ ~req[r].nexted
                    /\ req[r].status = 401
                    /\ req[r].message = "Conta desativada"
                    /\ \E u \in users : ~u.is_active

\* the user row a request writes an email to (register: a new row)
EmailTarget(r) ==
    CASE req[r].op = "updateProfile" -> req[r].user.id
      [] req[r].op = "updateUser" -> req[r].args.id
      [] OTHER -> NULL

\* the step of r is a query of an email-writing handler whose email another
\* user's row already has
EmailClash(r) ==
    /\ req[r].pc \in {"regCheck", "regInsert", "profCheck", "profUpdate", "admCheck", "admUpdate"}
    /\ req[r].args.email # NoStr
    /\ req[r].op # "register" => UserRows(users, EmailTarget(r)) # {}
    /\ \E u \in users : u.email = req[r].args.email /\ u.id # EmailTarget(r)

\* C9: no two rows of users have the same email, whatever the interleaving of
\* register, profile-update and admin-update requests; a query of such a request
\* that runs while another user's row has the requested email ends the request
\* with an error status and leaves every table as it was.
C9_EmailUnique ==
    /\ [](\A u1, u2 \in users : u1.id # u2.id => u1.email # u2.email)
    /\ [][\A r \in Reqs :
            (EmailClash(r) /\ req'[r] # req[r]) =>
              /\ tables' = tables
              /\ req'[r].pc = "done"
              /\ req'[r].status \in {400, 500}]_vars

\* a request passed its own email test and reached its write after another
\* request had stored the same email
C9_Witness ==
    \E r \in Reqs : /\ req[r].pc \in {"regInsert", "profUpdate", "admUpdate"}
                    /\ EmailClash(r)

\* C10: no two rows of affiliates have the same referral_code, whatever the
\* interleaving of create-affiliate requests with supplied or generated codes;
\* the affiliate lookup of a booking finds at most one row for a code.
C10_ReferralCodeUnique ==
    \A a \in affiliates : affiliateRows(affiliates, a.referral_code) = {a}

\* a create-affiliate request with a generated code passed its code test and
\* reached its INSERT after a concurrent request had committed the same code
C10_Witness ==
    \E r \in Reqs : /\ req[r].pc = "affInsert"
                    /\ req[r].args.referral_code = NoStr
                    /\ \E a \in affiliates : /\ a.referral_code = req[r].loc.finalReferralCode
                                             /\ a.rid # 0

(***************************************************************************)
(* routes/affiliates.js: PUT /:id; routes/therapists.js: POST /, PUT /:id  *)
(***************************************************************************)
\* UPDATE affiliates SET <the fields given> WHERE id = $n
UpdateAffiliateRow(a, args) ==
    [a EXCEPT !.commission_rate = IF args.commission_rate # NoRate THEN args.commission_rate ELSE @,
              !.is_active = IF args.is_active = "undefined" THEN @ ELSE args.is_active = "true"]

AffiliateUpdate(r) ==
    /\ req[r].pc = "affUpdate"
    /\ \E fails \in BOOLEAN :
         LET hit == {a \in affiliates : a.id = req[r].args.id}
         IN IF fails THEN StoreThrow(r) /\ UNCHANGED affiliates
            ELSE IF hit = {}
              THEN Respond(r, 404, "Afiliado não encontrado") /\ UNCHANGED affiliates
            ELSE /\ affiliates' = (affiliates \ hit) \cup {UpdateAffiliateRow(a, req[r].args) : a \in hit}
                 /\ Respond(r, 200, "Afiliado atualizado com sucesso")
    /\ UNCHANGED <<users, therapists, services, bookings, commissions, issued, nreq>>

TherapistUserLookup(r) ==
    /\ req[r].pc = "thUser"
    /\ \E fails \in BOOLEAN :
         IF fails THEN StoreThrow(r)
         ELSE IF UserRows(users, req[r].args.user_id) = {}
           THEN Rollback(r, "Usuário não encontrado")
         ELSE req' = [req EXCEPT ![r].pc = "thExisting"]
    /\ UNCHANGED <<tables, issued, nreq>>

\* SELECT id FROM therapists WHERE user_id = $1
TherapistExisting(r) ==
    /\ req[r].pc = "thExisting"
    /\ \E fails \in BOOLEAN :
         IF fails THEN StoreThrow(r)
         ELSE IF {t \in Visible(r, therapists, "therapists") : t.user_id = req[r].args.user_id} # {}
           THEN Rollback(r, "Usuário já é terapeuta")
         ELSE req' = [req EXCEPT ![r].pc = "thInsert"]
    /\ UNCHANGED <<tables, issued, nreq>>

NewTherapist(r) ==
    [id |-> FreshId(therapists, PendingAll("therapists")), user_id |-> req[r].args.user_id,
     commission_rate |-> req[r].args.commission_rate, is_available |-> TRUE, rid |-> req[r].rid]

InsertTherapist(r) ==
    /\ req[r].pc = "thInsert"
    /\ \E fails \in BOOLEAN :
         IF fails THEN StoreThrow(r)
         ELSE req' = [req EXCEPT ![r].pc = "commit",
                                 ![r].tx.therapists = @ \cup {NewTherapist(r)}]
    /\ UNCHANGED <<tables, issued, nreq>>

\* UPDATE therapists SET <the fields given> WHERE id = $n
UpdateTherapistRow(t, args) ==
    [t EXCEPT !.commission_rate = IF args.commission_rate # NoRate THEN args.commission_rate ELSE @,
              !.is_available = IF args.is_available = "undefined" THEN @ ELSE args.is_available = "true"]

TherapistUpdate(r) ==
    /\ req[r].pc = "thUpdate"
    /\ \E fails \in BOOLEAN :
         LET hit == {t \in therapists : t.id = req[r].args.id}
         IN IF fails THEN StoreThrow(r) /\ UNCHANGED therapists
            ELSE IF hit = {}
              THEN Respond(r, 404, "Terapeuta não encontrado") /\ UNCHANGED therapists
            ELSE /\ therapists' = (therapists \ hit) \cup {UpdateTherapistRow(t, req[r].args) : t \in hit}
                 /\ Respond(r, 200, "Terapeuta atualizado com sucesso")
    /\ UNCHANGED <<users, affiliates, services, bookings, commissions, issued, nreq>>

(***************************************************************************)
(* Requests that carry a commission_rate                                   *)
(***************************************************************************)
\* rates below, at and above the bounds of the validators (percent)
Rates == {-1, 0, 100, 101}

\* affiliate 1 and therapist 1, and an id no row has
RateRowIds == {1, 9}

RateTokens == {ValidToken(1), ValidToken(2)}

AffiliateUpdateBody(id, rate, active) == [id |-> id, commission_rate |-> rate, is_active |-> active]

AffiliateUpdateBodies ==
    {AffiliateUpdateBody(1, rate, "undefined") : rate \in Rates \cup {NoRate}}
      \cup {AffiliateUpdateBody(id, NoRate, "false") : id \in RateRowIds}

TherapistUpdateBody(id, rate, available) ==
    [id |-> id, commission_rate |-> rate, is_available |-> available]

TherapistUpdateBodies ==
    {TherapistUpdateBody(1, rate, "undefined") : rate \in Rates \cup {NoRate}}
      \cup {TherapistUpdateBody(id, NoRate, "false") : id \in RateRowIds}

TherapistBody(user_id, rate) == [user_id |-> user_id, commission_rate |-> rate]

\* user 2 is no therapist, user 3 is one, no user has id 9
TherapistBodies ==
    {TherapistBody(2, rate) : rate \in Rates} \cup {TherapistBody(u, 100) : u \in {3, 9}}

PostAffiliateRate(r) ==
    /\ \E token \in RateTokens, rate \in Rates :
         /\ token # ValidToken(1) => rate = 100
         /\ Begin(r, "createAffiliate", token,
                  [AffiliateBody(3, "ABCD1234") EXCEPT !.commission_rate = rate])
    /\ UNCHANGED <<tables, issued>>

PutAffiliate(r) ==
    /\ \E token \in RateTokens, body \in AffiliateUpdateBodies :
         /\ token # ValidToken(1) => body = AffiliateUpdateBody(1, 100, "undefined")
         /\ Begin(r, "updateAffiliate", token, body)
    /\ UNCHANGED <<tables, issued>>

PostTherapist(r) ==
    /\ \E token \in RateTokens, body \in TherapistBodies :
         /\ token # ValidToken(1) => body = TherapistBody(2, 100)
         /\ Begin(r, "createTherapist", token, body)
    /\ UNCHANGED <<tables, issued>>

PutTherapist(r) ==
    /\ \E token \in RateTokens, body \in TherapistUpdateBodies :
         /\ token # ValidToken(1) => body = TherapistUpdateBody(1, 100, "undefined")
         /\ Begin(r, "updateTherapist", token, body)
    /\ UNCHANGED <<tables, issued>>

NextRates ==
    \E r \in Reqs :
        \/ PostAffiliateRate(r)
        \/ PutAffiliate(r)
        \/ PostTherapist(r)
        \/ PutTherapist(r)
        \/ AuthStep(r)
        \/ AffiliateUserLookup(r)
        \/ AffiliateExisting(r)
        \/ AffiliateCodeCheck(r)
        \/ InsertAffiliate(r)
        \/ AffiliateUpdate(r)
        \/ TherapistUserLookup(r)
        \/ TherapistExisting(r)
        \/ InsertTherapist(r)
        \/ TherapistUpdate(r)
        \/ Commit(r)

SpecRates == Init /\ [][NextRates]_vars

RateOps == {"createAffiliate", "updateAffiliate", "createTherapist", "updateTherapist"}

\* C11: every commission_rate stored for an affiliate or a therapist is between
\* 0 and 100 inclusive in every reachable state; a create or update request that
\* passed authentication and the role test and carries a rate outside that range
\* ends with 400 and changes no table, and never reaches a query of its handler.
C11_RateWithinBounds ==
    /\ [](\A a \in affiliates \cup therapists :
            0 <= a.commission_rate /\ a.commission_rate <= 100)
    /\ [](\A r \in Reqs :
            (req[r].op \in RateOps /\ req[r].pc \notin {"auth", "done"}) =>
              \/ req[r].args.commission_rate = NoRate
              \/ (0 <= req[r].args.commission_rate /\ req[r].args.commission_rate <= 100))
    /\ [][\A r \in Reqs :
            (/\ req[r].op \in RateOps
             /\ req[r].pc = "auth" /\ req'[r].pc # "auth"
             /\ req'[r].nexted /\ req'[r].status # 403
             /\ req[r].args.commission_rate # NoRate
             /\ (req[r].args.commission_rate < 0 \/ req[r].args.commission_rate > 100)) =>
              /\ req'[r].pc = "done"
              /\ req'[r].status = 400
              /\ tables' = tables]_vars

\* an update with a rate outside the range was answered 400 while rates at both
\* bounds have been stored
C11_Witness ==
    /\ \E r \in Reqs : /\ Finished(r)
                       /\ req[r].op = "updateAffiliate"
                       /\ req[r].status = 400
                       /\ req[r].message = "Dados inválidos"
    /\ \E a \in affiliates : a.commission_rate = 100
    /\ \E t \in therapists : t.commission_rate = 0

(***************************************************************************)
(* routes/services.js: DELETE /:id                                         *)
(***************************************************************************)
\* SELECT COUNT(*) FROM bookings WHERE service_id = $1
\*   AND status NOT IN ('cancelled', 'completed')
activeBookingsOfService(rows, id) == {b \in rows : b.service_id = id /\ ActiveStatus(b.status)}

ServiceDeleteCheck(r) ==
    /\ req[r].pc = "svcDelCheck"
    /\ \E fails \in BOOLEAN :
         IF fails THEN StoreThrow(r)
         ELSE IF activeBookingsOfService(bookings, req[r].args.id) # {}
           THEN Respond(r, 400, "Não é possível excluir serviço com agendamentos ativos")
         ELSE req' = [req EXCEPT ![r].pc = "svcDelUpdate"]
    /\ UNCHANGED <<tables, issued, nreq>>

\* UPDATE services SET is_active = false WHERE id = $1
ServiceDeactivate(r) ==
    /\ req[r].pc = "svcDelUpdate"
    /\ \E fails \in BOOLEAN :
         LET hit == {sv \in services : sv.id = req[r].args.id}
         IN IF fails THEN StoreThrow(r) /\ UNCHANGED services
            ELSE IF hit = {}
              THEN Respond(r, 404, "Serviço não encontrado") /\ UNCHANGED services
            ELSE /\ services' = (services \ hit) \cup {[sv EXCEPT !.is_active = FALSE] : sv \in hit}
                 /\ Respond(r, 200, "Serviço desativado com sucesso")
    /\ UNCHANGED <<users, affiliates, therapists, bookings, commissions, issued, nreq>>

(***************************************************************************)
(* Requests to the services route, with bookings of the services           *)
(***************************************************************************)
\* service 1 is active, service 2 is not, no service has id 9
DeletedServiceIds == {1, 2, 9}

DeleteService(r) ==
    /\ \E token \in {ValidToken(1), ValidToken(2)}, id \in DeletedServiceIds :
         /\ token # ValidToken(1) => id = 1
         /\ Begin(r, "deleteService", token, [id |-> id])
    /\ UNCHANGED <<tables, issued>>

PostServiceBooking(r) ==
    /\ \E sv \in {1, 2}, code \in {NoStr, "NOPE"} :
         /\ sv = 2 => code = NoStr
         /\ Begin(r, "createBooking", ValidToken(1), BookingBody(sv, "09:30", code, TRUE))
    /\ UNCHANGED <<tables, issued>>

NextServices ==
    \E r \in Reqs :
        \/ DeleteService(r)
        \/ PostServiceBooking(r)
        \/ PutCancel(r)
        \/ AuthStep(r)
        \/ ServiceDeleteCheck(r)
        \/ ServiceDeactivate(r)
        \/ ServiceLookup(r)
        \/ ConflictCheck(r)
        \/ AffiliateLookup(r)
        \/ InsertBooking(r)
        \/ CancelBooking(r)
        \/ Commit(r)

SpecServices == Init /\ [][NextServices]_vars

\* C12: DELETE /services/:id removes no service row, and the step that sets a
\* service's is_active to false is never taken while a booking of that service
\* with status pending or confirmed is stored; when the delete's count query
\* finds such a booking the request ends with 400 and no table changes.
C12_SoftDeactivateNoActiveBooking ==
    /\ [][Ids(services) \subseteq Ids(services')]_vars
    /\ [][\A sv \in services :
            (sv.is_active /\ \E n \in services' : n.id = sv.id /\ ~n.is_active) =>
              ~\E b \in bookings : b.service_id = sv.id /\ b.status \in {"pending", "confirmed"}]_vars
    /\ [][\A r \in Reqs :
            (/\ req[r].pc = "svcDelCheck" /\ req'[r].pc # "svcDelCheck" /\ ~req'[r].threw
             /\ \E b \in bookings : /\ b.service_id = req[r].args.id
                                    /\ b.status \in {"pending", "confirmed"}) =>
              req'[r].status = 400 /\ tables' = tables]_vars

(***************************************************************************)
(* Claims about attribution, commissions and booking status                *)
(***************************************************************************)
\* C13: affiliate attribution is optional.  The affiliate lookup of POST
\* /bookings never ends the request unless its query throws, whether the code
\* matches or not.  When the request commits (201) it stores exactly one booking:
\* with no code or a code that no affiliate has, the booking's affiliate_id is
\* null and no commission row is stored; with a code an affiliate has, the
\* booking carries that affiliate's id and exactly one commission row, pending,
\* is stored for that booking and affiliate.
C13_AttributionOptional ==
    /\ [][\A r \in Reqs :
            (req[r].pc = "aff" /\ req'[r].pc # "aff" /\ ~req'[r].threw) =>
              req'[r].pc = "insBooking"]_vars
    /\ [][\A r \in Reqs :
            (/\ req[r].op = "createBooking" /\ req[r].pc = "commit"
             /\ req'[r].pc = "done" /\ req'[r].status = 201) =>
              LET code == req[r].args.affiliate_code
                  matched == {a \in affiliates : a.referral_code = code}
                  newB == bookings' \ bookings
                  newC == commissions' \ commissions
              IN /\ Cardinality(newB) = 1
                 /\ \A b \in newB :
                      IF code = NoStr \/ matched = {}
                        THEN b.affiliate_id = NULL /\ newC = {}
                        ELSE /\ \E a \in matched : b.affiliate_id = a.id
                             /\ Cardinality(newC) = 1
                             /\ \A c \in newC : /\ c.booking_id = b.id
                                                /\ c.affiliate_id = b.affiliate_id
                                                /\ c.status = "pending"]_vars

\* a booking with the code of affiliate 1 has been stored with its commission,
\* and a booking with a code no affiliate has is about to commit unattributed
C13_Witness ==
    /\ \E b \in bookings : /\ b.rid # 0 /\ b.affiliate_id = 1
                           /\ Cardinality({c \in commissions : c.booking_id = b.id}) = 1
    /\ \E r \in Reqs : /\ req[r].pc = "commit"
                       /\ req[r].args.affiliate_code = "NOPE"
                       /\ req[r].tx.commissions = {}
                       /\ \E b \in req[r].tx.bookings : b.affiliate_id = NULL

\* C14: in every reachable state a booking with an affiliate_id has exactly one
\* commission row and a booking without one has none; every commission row
\* names a stored booking whose affiliate_id is the commission's, and a stored
\* affiliate.
C14_CommissionReferences ==
    /\ \A b \in bookings :
         Cardinality({c \in commissions : c.booking_id = b.id}) =
           (IF b.affiliate_id # NULL THEN 1 ELSE 0)
    /\ \A c \in commissions :
         /\ \E b \in bookings : b.id = c.booking_id /\ b.affiliate_id = c.affiliate_id
         /\ \E a \in affiliates : a.id = c.affiliate_id

\* requests have stored a booking with an affiliate and a booking without one
C14_Witness ==
    /\ \E b \in bookings : b.rid # 0 /\ b.affiliate_id # NULL
    /\ \E b \in bookings : b.rid # 0 /\ b.affiliate_id = NULL
    /\ commissions # {}

(***************************************************************************)
(* routes/commissions.js: the router's table, GET /:id, GET /stats/summary, *)
(* POST /:id/pay                                                           *)
(***************************************************************************)
Lit(text) == [param |-> FALSE, text |-> text]
Param(name) == [param |-> TRUE, text |-> name]

\* the routes in the order the router registers them
CommissionRoutes ==
    <<[method |-> "GET", path |-> <<>>, handler |-> "listCommissions"],
      [method |-> "GET", path |-> <<Param("id")>>, handler |-> "getCommission"],
      [method |-> "POST", path |-> <<Param("id"), Lit("pay")>>, handler |-> "payCommission"],
      [method |-> "GET", path |-> <<Lit("stats"), Lit("summary")>>, handler |-> "commissionStats"],
      [method |-> "GET", path |-> <<Lit("stats"), Lit("by-affiliate")>>,
       handler |-> "commissionStatsByAffiliate"]>>

\* express: a route matches a path segment by segment, a parameter matches any segment
RouteMatches(route, method, path) ==
    /\ route.method = method
    /\ Len(route.path) = Len(path)
    /\ \A i \in 1..Len(path) : route.path[i].param \/ route.path[i].text = path[i]

\* express: the first registered route that matches handles the request
Dispatch(method, path) ==
    LET hits == {i \in 1..Len(CommissionRoutes) : RouteMatches(CommissionRoutes[i], method, path)}
    IN IF hits = {} THEN "notFound"
       ELSE CommissionRoutes[CHOOSE i \in hits : \A j \in hits : i <= j].handler

\* req.params.id as the store reads it: the id of a row, or no uuid at all
ParamId(segment) ==
    CASE segment = "1" -> 1
      [] segment = "2" -> 2
      [] segment = "3" -> 3
      [] segment = "9" -> 9
      [] OTHER -> NULL

\* SELECT c.* ... WHERE c.id = $1; a parameter that is no uuid makes the query throw
GetCommission(r) ==
    /\ req[r].pc = "getCommission"
    /\ \E fails \in BOOLEAN :
         IF fails \/ req[r].args.id = NULL THEN StoreThrow(r)
         ELSE IF {c \in commissions : c.id = req[r].args.id} = {}
           THEN Respond(r, 404, "Comissão não encontrada")
         ELSE Respond(r, 200, NoStr)
    /\ UNCHANGED <<tables, issued, nreq>>

\* SELECT COUNT(*), SUM(amount), ... FROM commissions
CommissionStats(r) ==
    /\ req[r].pc = "stats"
    /\ \E fails \in BOOLEAN : IF fails THEN StoreThrow(r) ELSE Respond(r, 200, NoStr)
    /\ UNCHANGED <<tables, issued, nreq>>

\* the SELECT of the pay handler without its status test
payableRowsAnyStatus(rows, id) == {c \in rows : c.id = id}

\* SELECT c.* FROM commissions c JOIN affiliates ... WHERE c.id = $1 AND c.status = 'pending'
payableRows(rows, id) == {c \in rows : c.id = id /\ c.status = "pending"}

PaySelect(r) ==
    /\ req[r].pc = "paySelect"
    /\ \E fails \in BOOLEAN :
         LET found == payableRows(Visible(r, commissions, "commissions"), req[r].args.id)
         IN IF fails \/ req[r].args.id = NULL THEN StoreThrow(r)
            ELSE IF found = {} THEN Rollback(r, "Comissão não encontrada ou já processada")
            ELSE \E c \in found :
                   req' = [req EXCEPT ![r].pc = "payUpdate",
                             ![r].loc.commission = [id |-> c.id, affiliate_id |-> c.affiliate_id,
                                                    amount |-> c.amount]]
    /\ UNCHANGED <<tables, issued, nreq>>

\* UPDATE commissions SET status = 'paid' WHERE id = $1: it waits while an open
\* transaction has updated the row
PayUpdate(r) ==
    /\ req[r].pc = "payUpdate"
    /\ req[r].args.id \notin PendingOthers(r, "paid")
    /\ \E fails \in BOOLEAN :
         IF fails THEN StoreThrow(r)
         ELSE req' = [req EXCEPT ![r].pc = "payCredit", ![r].tx.paid = @ \cup {req[r].args.id}]
    /\ UNCHANGED <<tables, issued, nreq>>

\* UPDATE affiliates SET total_commission = total_commission + $1 WHERE id = $2:
\* it waits while an open transaction has updated the affiliate's row
PayCredit(r) ==
    /\ req[r].pc = "payCredit"
    /\ \A c \in PendingOthers(r, "credit") : c.affiliate_id # req[r].loc.commission.affiliate_id
    /\ \E fails \in BOOLEAN :
         IF fails THEN StoreThrow(r)
         ELSE req' = [req EXCEPT ![r].pc = "commit", ![r].tx.credit = @ \cup {req[r].loc.commission}]
    /\ UNCHANGED <<tables, issued, nreq>>

(***************************************************************************)
(* Requests to the commissions routes, with bookings that earn commissions *)
(***************************************************************************)
\* earlier bookings made with the code of affiliate 1, one of them cancelled
AttributedBooking ==
    [CompletedBooking EXCEPT !.id = 2, !.affiliate_id = 1, !.scheduled_date = "2025-07-31"]

CancelledBooking ==
    [CompletedBooking EXCEPT !.id = 3, !.affiliate_id = 1, !.scheduled_date = "2025-07-30",
                             !.status = "cancelled"]

\* their commissions: one pending, one set to 'cancelled' in the store
PendingCommission ==
    [id |-> 1, affiliate_id |-> 1, booking_id |-> 2, amount |-> 1500, percentage |-> 15,
     status |-> "pending"]

CancelledCommission ==
    [id |-> 2, affiliate_id |-> 1, booking_id |-> 3, amount |-> 1500, percentage |-> 15,
     status |-> "cancelled"]

InitCommissions ==
    /\ users = InitUsers
    /\ affiliates = InitAffiliates
    /\ therapists = InitTherapists
    /\ services = InitServices
    /\ bookings = {CompletedBooking, AttributedBooking, CancelledBooking}
    /\ commissions = {PendingCommission, CancelledCommission}
    /\ issued = {1, 2, 3, 4}
    /\ req = [r \in Reqs |-> IdleReq]
    /\ nreq = 0

\* GET /api/commissions/<path>
CommissionGetPaths == {<<"stats">>, <<"stats", "summary">>, <<"1">>, <<"9">>}

\* POST /api/commissions/<id>/pay
CommissionPayPaths == {<<id, "pay">> : id \in {"1", "2", "3", "9"}}

CommissionArgs(method, path) == [id |-> ParamId(path[1]), method |-> method, path |-> path]

CommissionTokens == {ValidToken(1), ValidToken(2)}

GetCommissions(r) ==
    /\ \E token \in CommissionTokens, path \in CommissionGetPaths :
         /\ Dispatch("GET", path) # "notFound"
         /\ token # ValidToken(1) => path = <<"stats", "summary">>
         /\ Begin(r, Dispatch("GET", path), token, CommissionArgs("GET", path))
    /\ UNCHANGED <<tables, issued>>

PostPay(r) ==
    /\ \E token \in CommissionTokens, path \in CommissionPayPaths :
         /\ Dispatch("POST", path) # "notFound"
         /\ token # ValidToken(1) => path = <<"1", "pay">>
         /\ Begin(r, Dispatch("POST", path), token, CommissionArgs("POST", path))
    /\ UNCHANGED <<tables, issued>>

PostCommissionBooking(r) ==
    /\ Begin(r, "createBooking", ValidToken(1), BookingBody(1, "09:30", "LUNA15", TRUE))
    /\ UNCHANGED <<tables, issued>>

NextCommissions ==
    \E r \in Reqs :
        \/ GetCommissions(r)
        \/ PostPay(r)
        \/ PostCommissionBooking(r)
        \/ AuthStep(r)
        \/ GetCommission(r)
        \/ CommissionStats(r)
        \/ PaySelect(r)
        \/ PayUpdate(r)
        \/ PayCredit(r)
        \/ ServiceLookup(r)
        \/ ConflictCheck(r)
        \/ AffiliateLookup(r)
        \/ InsertBooking(r)
        \/ RateLookup(r)
        \/ InsertCommission(r)
        \/ Commit(r)

SpecCommissions == InitCommissions /\ [][NextCommissions]_vars

CommissionOps == {"getCommission", "commissionStats", "payCommission"}

\* C15: GET /api/commissions/stats asked by the admin is handled by the
\* statistics handler, not by the GET /:id lookup, and is answered 200.
C15_StatsRouted ==
    /\ [](\A r \in Reqs :
            (/\ req[r].op \in CommissionOps /\ req[r].pc # "done"
             /\ req[r].args.method = "GET" /\ req[r].args.path = <<"stats">>) =>
              req[r].op = "commissionStats")
    /\ [][\A r \in Reqs :
            (/\ req[r].op \in CommissionOps /\ req[r].pc \notin {"done", "auth"}
             /\ req[r].args.method = "GET" /\ req[r].args.path = <<"stats">>
             /\ req[r].token = ValidToken(1)
             /\ req'[r].pc = "done") => req'[r].status = 200]_vars

\* C18: POST /commissions/:id/pay whose SELECT finds no pending commission with
\* the id (absent, paid or cancelled) ends with an error status and leaves
\* commissions and affiliates as they were, as does every pay request that
\* fails; a pay request that answers 200 sets the commission to paid and adds
\* its amount to its affiliate's total_commission in the same commit; a paid
\* commission stays paid.
C18_PayOnlyPending ==
    /\ [][\A r \in Reqs :
            (/\ req[r].pc = "paySelect" /\ req'[r].pc # "paySelect"
             /\ ~\E c \in commissions : c.id = req[r].args.id /\ c.status = "pending") =>
              /\ req'[r].pc = "done" /\ req'[r].status >= 400
              /\ commissions' = commissions /\ affiliates' = affiliates]_vars
    /\ [][\A r \in Reqs :
            (req[r].op = "payCommission" /\ req[r].pc # "done" /\ req'[r].pc = "done") =>
              IF req'[r].status = 200
                THEN /\ \E c \in commissions' : c.id = req[r].args.id /\ c.status = "paid"
                     /\ \A a \in affiliates : a.id = req[r].loc.commission.affiliate_id =>
                          \E n \in affiliates' :
                            /\ n.id = a.id
                            /\ n.total_commission = a.total_commission + req[r].loc.commission.amount
                ELSE commissions' = commissions /\ affiliates' = affiliates]_vars
    /\ [][\A c \in commissions :
            c.status = "paid" => \E n \in commissions' : n.id = c.id /\ n.status = "paid"]_vars

\* a pay request set commission 1 to paid and credited affiliate 1, and a later
\* pay request for the same commission was refused
C18_Witness ==
    /\ \E c \in commissions : c.id = 1 /\ c.status = "paid"
    /\ \E a \in affiliates : a.id = 1 /\ a.total_commission = PendingCommission.amount
    /\ \E r, q \in Reqs :
         /\ Finished(r) /\ req[r].op = "payCommission" /\ req[r].args.id = 1 /\ req[r].status = 200
         /\ Finished(q) /\ req[q].op = "payCommission" /\ req[q].args.id = 1
         /\ req[q].rid > req[r].rid
         /\ req[q].message = "Comissão não encontrada ou já processada"

\* C19: for every affiliate, total_commission is the sum of the amounts of the
\* affiliate's commissions with status paid, in every reachable state.
C19_TotalIsSumOfPaid ==
    \A a \in affiliates :
        a.total_commission = SumAmounts({c \in commissions : c.affiliate_id = a.id /\ c.status = "paid"})

\* the status changes the claims allow
AllowedTransitions ==
    {<<"pending", "confirmed">>, <<"pending", "cancelled">>, <<"confirmed", "cancelled">>}

\* C16: no step removes a booking; a booking that a step adds is pending; a
\* step that changes a booking's status changes it along pending->confirmed,
\* pending->cancelled or confirmed->cancelled, so that a cancelled or completed
\* booking keeps its status and no step sets completed or goes back to pending.
C16_StatusTransitions ==
    [][/\ Ids(bookings) \subseteq Ids(bookings')
       /\ \A n \in bookings' :
            /\ n.id \notin Ids(bookings) => n.status = "pending"
            /\ \A b \in bookings :
                 (b.id = n.id /\ b.status # n.status) => <<b.status, n.status>> \in AllowedTransitions]_vars

\* a booking made by a request was confirmed and then cancelled, and the
\* completed booking is still completed
C16_Witness ==
    /\ CompletedBooking \in bookings
    /\ \E r, q \in Reqs :
         /\ Finished(r) /\ req[r].op = "confirm" /\ req[r].status = 200
         /\ Finished(q) /\ req[q].op = "cancel" /\ req[q].status = 200
         /\ req[q].args.id = req[r].args.id
         /\ req[q].rid > req[r].rid
         /\ \E b \in bookings : b.id = req[r].args.id /\ b.rid # 0 /\ b.status = "cancelled"

\* C17: a confirm whose UPDATE runs when no booking with the id is pending, and
\* a cancel whose UPDATE runs when no booking with the id is pending or
\* confirmed (the booking is absent, cancelled or completed), are answered 404
\* and leave every table, so every booking row with its cancellation_reason,
\* unchanged.  (When the UPDATE itself throws the answer is 500, also with no
\* change.)
C17_NotProcessableIs404 ==
    [][\A r \in Reqs :
         (/\ req[r].pc \in {"confirm", "cancel"} /\ req'[r].pc = "done"
          /\ ~\E b \in bookings :
                /\ b.id = req[r].args.id
                /\ \/ b.status = "pending"
                   \/ (req[r].pc = "cancel" /\ b.status = "confirmed")) =>
           /\ req'[r].status = (IF req'[r].threw THEN 500 ELSE 404)
           /\ tables' = tables]_vars

\* a cancel of the completed booking and a confirm of an id no booking has
\* were answered 404, and the completed booking is as it was
C17_Witness ==
    /\ CompletedBooking \in bookings
    /\ \E r \in Reqs : /\ Finished(r) /\ req[r].op = "cancel" /\ req[r].status = 404
                       /\ req[r].args.id = CompletedBooking.id
    /\ \E q \in Reqs : /\ Finished(q) /\ req[q].op = "confirm" /\ req[q].status = 404
                       /\ req[q].args.id \notin Ids(bookings)

(***************************************************************************)
(* routes/services.js: PUT /:id, with bookings and affiliate updates       *)
(***************************************************************************)
\* UPDATE services SET <the fields given> WHERE id = $n
UpdateServiceRow(sv, args) ==
    [sv EXCEPT !.price = IF args.price # NoPrice THEN args.price ELSE @,
               !.is_active = IF args.is_active = "undefined" THEN @ ELSE args.is_active = "true"]

ServiceUpdate(r) ==
    /\ req[r].pc = "svcUpdate"
    /\ \E fails \in BOOLEAN :
         LET hit == {sv \in services : sv.id = req[r].args.id}
         IN IF fails THEN StoreThrow(r) /\ UNCHANGED services
            ELSE IF hit = {}
              THEN Respond(r, 404, "Serviço não encontrado") /\ UNCHANGED services
            ELSE /\ services' = (services \ hit) \cup {UpdateServiceRow(sv, req[r].args) : sv \in hit}
                 /\ Respond(r, 200, "Serviço atualizado com sucesso")
    /\ UNCHANGED <<users, affiliates, therapists, bookings, commissions, issued, nreq>>

\* prices in cents: 19.99, and 0, which the validator refuses
ServicePrices == {1999, 0}

ServiceUpdateBody(id, price, active) == [id |-> id, price |-> price, is_active |-> active]

ServiceUpdateBodies ==
    {ServiceUpdateBody(1, price, "undefined") : price \in ServicePrices \cup {NoPrice}}
      \cup {ServiceUpdateBody(9, 1999, "undefined")}

PutService(r) ==
    /\ \E body \in ServiceUpdateBodies : Begin(r, "updateService", ValidToken(1), body)
    /\ UNCHANGED <<tables, issued>>

\* PUT /affiliates/1 with a new rate
PutAffiliateRate(r) ==
    /\ Begin(r, "updateAffiliate", ValidToken(1), AffiliateUpdateBody(1, 100, "undefined"))
    /\ UNCHANGED <<tables, issued>>

NextSnapshot ==
    \E r \in Reqs :
        \/ PostCommissionBooking(r)
        \/ PutService(r)
        \/ PutAffiliateRate(r)
        \/ AuthStep(r)
        \/ ServiceUpdate(r)
        \/ AffiliateUpdate(r)
        \/ ServiceLookup(r)
        \/ ConflictCheck(r)
        \/ AffiliateLookup(r)
        \/ InsertBooking(r)
        \/ RateLookup(r)
        \/ InsertCommission(r)
        \/ Commit(r)

SpecSnapshot == Init /\ [][NextSnapshot]_vars

\* C20 as worded: the commission's amount is exactly price x rate / 100 (in
\* cents: amount x 100 = total_amount x percentage) for every commission.
C20_ExactAmount ==
    \A c \in commissions : \A b \in bookings :
        b.id = c.booking_id => c.amount * 100 = b.total_amount * c.percentage

\* C20: the price a create-booking request reads is the service's stored price
\* and the rate it reads is the affiliate's stored commission_rate; the booking
\* it commits has that price as total_amount, its commission has that rate as
\* percentage, and the amount is price x rate / 100 rounded to the cent (within
\* half a cent of the exact value).  Updates of a service or of an affiliate
\* change no booking and no commission row.
C20_RoundedSnapshot ==
    /\ [][\A r \in Reqs :
            /\ (req[r].pc = "svc" /\ req'[r].pc \notin {"svc", "done"}) =>
                 \E sv \in services : /\ sv.id = req[r].args.service_id
                                      /\ req'[r].loc.service.price = sv.price
            /\ (req[r].pc = "rate" /\ req'[r].pc = "insCommission") =>
                 \E a \in affiliates : /\ a.id = req[r].loc.affiliate_id
                                       /\ req'[r].loc.rate = a.commission_rate
            /\ (req[r].op = "createBooking" /\ req[r].pc = "commit" /\ req'[r].status = 201) =>
                 /\ \A b \in bookings' \ bookings : b.total_amount = req[r].loc.service.price
                 /\ \A c \in commissions' \ commissions :
                      /\ c.percentage = req[r].loc.rate
                      /\ c.amount * 100 - req[r].loc.service.price * req[r].loc.rate \in -50..50
            /\ (req[r].op \in {"updateService", "updateAffiliate"} /\ req'[r] # req[r]) =>
                 bookings' = bookings /\ commissions' = commissions]_vars
    /\ [](\A c \in commissions : \A b \in bookings :
            b.id = c.booking_id => c.amount * 100 - b.total_amount * c.percentage \in -50..50)

\* a booking made at the price 19.99 and the rate 15 has a commission of 3.00,
\* and the service's price or the affiliate's rate has been updated since
C20_Witness ==
    /\ \E c \in commissions : \E b \in bookings :
         /\ b.id = c.booking_id /\ b.total_amount = 1999 /\ c.percentage = 15 /\ c.amount = 300
    /\ \E a \in affiliates : a.id = 1 /\ a.commission_rate = 100

(***************************************************************************)
(* routes/therapists.js: GET /:id/availability                             *)
(***************************************************************************)
\* the slots of the day, 08:00 to 17:30 in steps of half an hour, in order
defaultSlots ==
    <<"08:00", "08:30", "09:00", "09:30", "10:00", "10:30", "11:00", "11:30",
      "12:00", "12:30", "13:00", "13:30", "14:00", "14:30", "15:00", "15:30",
      "16:00", "16:30", "17:00", "17:30">>

\* new Date(`2000-01-01T${time}`) as minutes after midnight, for a time on
\* the half-hour grid of the day
parseTime(time) ==
    LET i == CHOOSE k \in 1..Len(defaultSlots) : defaultSlots[k] = time
    IN 480 + 30 * (i - 1)

\* SELECT scheduled_time, s.duration_minutes FROM bookings b JOIN services s
\*   ON b.service_id = s.id WHERE b.therapist_id = $1 AND b.scheduled_date = $2
\*   AND b.status NOT IN ('cancelled', 'completed')
busySlots(bks, svs, id, date) ==
    {[scheduled_time |-> b.scheduled_time, duration_minutes |-> sv.duration_minutes] :
        <<b, sv>> \in {p \in bks \X svs :
                          /\ p[1].service_id = p[2].id
                          /\ p[1].therapist_id = id
                          /\ p[1].scheduled_date = date
                          /\ ActiveStatus(p[1].status)}}

\* the filter of the default slots: a slot of 60 minutes that overlaps no
\* busy interval [scheduled_time, scheduled_time + duration_minutes)
slotOverlaps(slot, busy) ==
    /\ parseTime(slot) < parseTime(busy.scheduled_time) + busy.duration_minutes
    /\ parseTime(slot) + 60 > parseTime(busy.scheduled_time)

availableSlots(busy) ==
    SelectSeq(defaultSlots, LAMBDA slot : ~\E b \in busy : slotOverlaps(slot, b))

InSeq(x, seq) == \E i \in 1..Len(seq) : seq[i] = x

\* the listing the handler answers on the stored rows
Listing(bks, svs, id, date) ==
    LET busy == busySlots(bks, svs, id, date)
    IN [date |-> date, available_slots |-> availableSlots(busy),
        busy_slots |-> {b.scheduled_time : b \in busy}]

\* the handler: 400 without a date, else one query and the listing as data
Availability(r) ==
    /\ req[r].pc = "availability"
    /\ IF req[r].args.date = NoStr THEN Respond(r, 400, "Data é obrigatória")
       ELSE \E fails \in BOOLEAN :
              IF fails THEN StoreThrow(r)
              ELSE req' = [req EXCEPT ![r] =
                             [IdleReq EXCEPT !.rid = req[r].rid, !.op = req[r].op,
                                             !.args = req[r].args, !.status = 200,
                                             !.nexted = req[r].nexted,
                                             !.loc = Listing(bookings, services,
                                                             req[r].args.id, req[r].args.date)]]
    /\ UNCHANGED <<tables, issued, nreq>>

(***************************************************************************)
(* Requests for the availability of a therapist, with bookings of the day  *)
(***************************************************************************)
AvailabilityArgs == {[id |-> 1, date |-> "2025-08-01"], [id |-> 2, date |-> "2025-08-01"],
                     [id |-> 1, date |-> NoStr]}

GetAvailability(r) ==
    /\ \E args \in AvailabilityArgs : Begin(r, "availability", ValidToken(1), args)
    /\ UNCHANGED <<tables, issued>>

PostSlotBooking(r) ==
    /\ \E time \in Times : Begin(r, "createBooking", ValidToken(1), BookingBody(1, time, NoStr, TRUE))
    /\ UNCHANGED <<tables, issued>>

NextAvailability ==
    \E r \in Reqs :
        \/ GetAvailability(r)
        \/ PostSlotBooking(r)
        \/ PutConfirm(r)
        \/ PutCancel(r)
        \/ AuthStep(r)
        \/ Availability(r)
        \/ ServiceLookup(r)
        \/ ConflictCheck(r)
        \/ InsertBooking(r)
        \/ Commit(r)
        \/ ConfirmBooking(r)
        \/ CancelBooking(r)

SpecAvailability == Init /\ [][NextAvailability]_vars

\* C21: booking creation agrees with the availability listing.  When the
\* conflict check of POST /bookings runs for a therapist, date and slot time,
\* and an answered GET /therapists/:id/availability for that therapist and
\* date holds the listing the stored rows still give, then the check rejects
\* the booking if the time is not among available_slots and lets it pass if
\* the time is among them.
C21_ListingAgreesWithBooking ==
    [][\A r \in Reqs, q \in Reqs :
          (/\ req[r].op = "createBooking"
           /\ req[r].pc = "conflict"
           /\ req'[r].pc # "conflict"
           /\ ~req'[r].threw
           /\ req[q].op = "availability"
           /\ req[q].pc = "done"
           /\ req[q].status = 200
           /\ req[q].args.id = req[r].args.therapist_id
           /\ req[q].args.date = req[r].args.scheduled_date
           /\ req[q].loc = Listing(bookings, services, req[q].args.id, req[q].args.date))
          => IF InSeq(req[r].args.scheduled_time, req[q].loc.available_slots)
               THEN req'[r].pc # "done"
               ELSE req'[r].pc = "done" /\ req'[r].message = "Horário não disponível"]_vars

(***************************************************************************)
(* Requests that create the affiliate and the therapist rows of users      *)
(***************************************************************************)
NextProfiles ==
    \E r \in Reqs :
        \/ PostAffiliate(r)
        \/ PostTherapist(r)
        \/ AuthStep(r)
        \/ AffiliateUserLookup(r)
        \/ AffiliateExisting(r)
        \/ AffiliateCodeCheck(r)
        \/ InsertAffiliate(r)
        \/ TherapistUserLookup(r)
        \/ TherapistExisting(r)
        \/ InsertTherapist(r)
        \/ Commit(r)

SpecProfiles == Init /\ [][NextProfiles]_vars

\* the rows of a table that belong to one user
RowsOfUser(rows, user_id) == {x \in rows : x.user_id = user_id}

\* C22: each user has at most one affiliate row and at most one therapist row
\* in every reachable state, whatever the interleaving of concurrent create
\* requests for the same user_id; a create request whose "already exists"
\* query finds a row of the user ends with its rejection ('Usuário já é
\* afiliado' / 'Usuário já é terapeuta') and changes no table.
C22_OneRowPerUser ==
    /\ [](\A u \in Ids(users) : Cardinality(RowsOfUser(affiliates, u)) <= 1)
    /\ [](\A u \in Ids(users) : Cardinality(RowsOfUser(therapists, u)) <= 1)
    /\ [][\A r \in Reqs :
            /\ (/\ req[r].pc = "affExisting"
                /\ req'[r].pc # "affExisting"
                /\ ~req'[r].threw
                /\ RowsOfUser(affiliates, req[r].args.user_id) # {})
               => /\ req'[r].pc = "done"
                  /\ req'[r].message = "Usuário já é afiliado"
                  /\ tables' = tables
            /\ (/\ req[r].pc = "thExisting"
                /\ req'[r].pc # "thExisting"
                /\ ~req'[r].threw
                /\ RowsOfUser(therapists, req[r].args.user_id) # {})
               => /\ req'[r].pc = "done"
                  /\ req'[r].message = "Usuário já é terapeuta"
                  /\ tables' = tables]_vars

(***************************************************************************)
(* Tokens issued before a change of role                                   *)
(***************************************************************************)
\* jwt.sign({ userId, email, role }): the token a user got at login, with the
\* role the user had then
SignedToken(u) ==
    [kind |-> "valid", userId |-> u.id, role |-> u.role]

IssuedToken(id) == SignedToken(Row(InitUsers, id))

\* the admin sets the role of a user
RoleBodies == {UserBody(id, NoStr, role, "undefined") : id \in {2, 3}, role \in AllRoles}

PutUserRole(r) ==
    /\ \E body \in RoleBodies : Begin(r, "updateUser", IssuedToken(1), body)
    /\ UNCHANGED <<tables, issued>>

\* user 3 (a therapist at login) on a route for admins and therapists
PutTherapistByUser(r) ==
    /\ Begin(r, "updateTherapist", IssuedToken(3), TherapistUpdateBody(1, 100, "undefined"))
    /\ UNCHANGED <<tables, issued>>

\* user 2 (an affiliate at login) on a route for admins
PutAffiliateByUser(r) ==
    /\ Begin(r, "updateAffiliate", IssuedToken(2), AffiliateUpdateBody(1, 100, "undefined"))
    /\ UNCHANGED <<tables, issued>>

NextRoles ==
    \E r \in Reqs :
        \/ PutUserRole(r)
        \/ PutTherapistByUser(r)
        \/ PutAffiliateByUser(r)
        \/ AuthStep(r)
        \/ AdminUpdate(r)
        \/ TherapistUpdate(r)
        \/ AffiliateUpdate(r)

SpecRoles == Init /\ [][NextRoles]_vars

\* the role stored for the user a token names
StoredRole(token) == (CHOOSE u \in UserRows(users, token.userId) : TRUE).role

\* C23: the role test uses the role stored for the user when the request is
\* authenticated, not the role the token carries.  A request whose token
\* verifies and names a stored, active user, and whose lookup does not throw,
\* is answered 403 'Permissão negada' with no table changed when the stored
\* role is not in the route's list, and passes the role test when it is;
\* so after PUT /users/:id has changed the role, the user's old token is
\* treated according to the new role.
C23_StoredRoleDecides ==
    [][\A r \in Reqs :
          (/\ req[r].pc = "auth"
           /\ req'[r] # req[r]
           /\ Authentic(req[r].token, users)
           /\ ~req'[r].threw)
          => IF StoredRole(req[r].token) \in RouteRoles(req[r].op)
               THEN req'[r].status # 403 /\ req'[r].message # "Permissão negada"
               ELSE /\ req'[r].pc = "done"
                    /\ req'[r].status = 403
                    /\ req'[r].message = "Permissão negada"
                    /\ tables' = tables]_vars

\* user 3 logged in as a therapist, the admin has made the user an affiliate,
\* and the user's request with the old token has been answered 403
C23_Witness ==
    /\ IssuedToken(3).role = "therapist"
    /\ \E u \in UserRows(users, 3) : u.role = "affiliate"
    /\ \E r \in Reqs : /\ req[r].op = "updateTherapist"
                        /\ req[r].pc = "done"
                        /\ req[r].status = 403
                        /\ req[r].message = "Permissão negada"

(***************************************************************************)
(* routes/auth.js: POST /refresh, POST /logout, GET /verify                *)
(***************************************************************************)
\* POST /refresh: a new token signed for req.user, as the data of the answer
Refresh(r) ==
    /\ req[r].pc = "refresh"
    /\ req' = [req EXCEPT ![r] =
                 [IdleReq EXCEPT !.rid = req[r].rid, !.op = req[r].op, !.status = 200,
                                 !.message = "Token renovado com sucesso",
                                 !.nexted = req[r].nexted,
                                 !.loc = [token |-> SignedToken(req[r].user)]]]
    /\ issued' = issued \cup {req[r].user.id}
    /\ UNCHANGED <<tables, nreq>>

\* a logout that ends the sessions of the user by deactivating the account
LogoutRevoking(r) ==
    /\ req[r].pc = "logout"
    /\ Respond(r, 200, "Logout realizado com sucesso")
    /\ users' = {[u EXCEPT !.is_active = IF u.id = req[r].user.id THEN FALSE ELSE @] : u \in users}
    /\ UNCHANGED <<affiliates, therapists, services, bookings, commissions, issued, nreq>>

\* POST /logout: the answer and nothing else
Logout(r) ==
    /\ req[r].pc = "logout"
    /\ Respond(r, 200, "Logout realizado com sucesso")
    /\ UNCHANGED <<tables, issued, nreq>>

\* GET /verify
Verify(r) ==
    /\ req[r].pc = "verify"
    /\ Respond(r, 200, "Token válido")
    /\ UNCHANGED <<tables, issued, nreq>>

(***************************************************************************)
(* Sessions: a user logs out and refreshes, and presents tokens again      *)
(***************************************************************************)
\* the token user 2 got at login, an expired token of the user, and the
\* token of a user whose row has been deleted
SessionTokens ==
    {IssuedToken(2), ExpiredToken(2), [kind |-> "valid", userId |-> DeletedUser, role |-> "affiliate"]}

\* the tokens that answered refresh requests have handed out
RefreshedTokens == {req[q].loc.token : q \in {p \in Reqs : req[p].op = "refresh" /\ req[p].status = 200}}

PostLogout(r) ==
    /\ \E token \in SessionTokens \cup RefreshedTokens : Begin(r, "logout", token, NoArgs)
    /\ UNCHANGED <<tables, issued>>

PostRefresh(r) ==
    /\ \E token \in SessionTokens \cup RefreshedTokens : Begin(r, "refresh", token, NoArgs)
    /\ UNCHANGED <<tables, issued>>

\* a client that has the answer to its logout presents the login token again
VerifyAfterLogout(r) ==
    /\ \E q \in Reqs : req[q].op = "logout" /\ req[q].pc = "done" /\ req[q].status = 200
    /\ Begin(r, "verify", IssuedToken(2), NoArgs)
    /\ UNCHANGED <<tables, issued>>

\* the admin deactivates and reactivates user 2
PutUserActive(r) ==
    /\ \E active \in {"true", "false"} :
         Begin(r, "updateUser", IssuedToken(1), UserBody(2, NoStr, NoStr, active))
    /\ UNCHANGED <<tables, issued>>

NextSessions ==
    \E r \in Reqs :
        \/ PostLogout(r)
        \/ PostRefresh(r)
        \/ VerifyAfterLogout(r)
        \/ PutUserActive(r)
        \/ AuthStep(r)
        \/ Logout(r)
        \/ Refresh(r)
        \/ Verify(r)
        \/ AdminUpdate(r)

SpecSessions == Init /\ [][NextSessions]_vars

SessionOps == {"logout", "refresh", "verify"}

\* C24: request handling keeps no session state.  No step of a logout, a
\* refresh or a verify request changes a table; and whatever logouts and
\* refreshes have been answered before, a request is let through by
\* authenticateToken exactly when its token verifies and names a stored,
\* active user (its lookup not throwing), so a token presented after logout,
\* and the old token after a refresh, is accepted as before; the refresh
\* hands out a token of the same user and leaves the old token as it was.
C24_NoSessionState ==
    [][\A r \in Reqs :
          /\ (req[r].op \in SessionOps /\ req'[r] # req[r]) => tables' = tables
          /\ (req[r].pc = "auth" /\ req'[r] # req[r] /\ ~req'[r].threw)
               => (req'[r].nexted <=> Authentic(req[r].token, users))
          /\ (req[r].pc = "refresh" /\ req'[r] # req[r])
               => /\ req'[r].loc.token.userId = req[r].token.userId
                  /\ Authentic(req[r].token, users') <=> Authentic(req[r].token, users)]_vars

\* user 2 has logged out, has presented the login token again after the
\* answer, and the token has been accepted
C24_Witness ==
    /\ \E u \in UserRows(users, 2) : u.is_active
    /\ \E r \in Reqs : /\ req[r].op = "verify"
                        /\ req[r].pc = "done"
                        /\ req[r].status = 200
                        /\ req[r].message = "Token válido"

====
